---- MODULE Spec2Model ----
(***************************************************************************)
(* Model of the pallet-doc-extractor reconciliation engine.                *)
(*                                                                         *)
(*   SpecCorr   correlateDocuments (lib/correlator.ts) folding the pages   *)
(*              of one file into a ledger, followed by                      *)
(*              toLademittelmahnungFormat (lib/output-generator.ts).        *)
(*   SpecV010   v010ToLademittelmahnungFormat over one normalized v0.10     *)
(*              extraction.                                                 *)
(*   SpecValid  validateExtraction (lib/validation.ts) over one two-pass    *)
(*              record and one configuration.                               *)
(*   SpecMerge  mergeStops applied to a list of stop records, and again to  *)
(*              its own result.                                             *)
(*   SpecNorm   the two pallet-type normalizers over one label.             *)
(*   SpecReview needsReview over one record, validation and configuration.  *)
(*   SpecReceipts  correlateDocuments over files of exchange receipts with  *)
(*              negative, zero and positive quantities.                     *)
(*   SpecRetry  withRetry (lib/ai-client.ts) and the parse after it.        *)
(*   SpecBatch  the batch loop of batch.ts over the document groups.        *)
(*   SpecPool   extractAllPages / classifyAllPages: chunks of three pages.  *)
(*                                                                         *)
(* JavaScript values are represented as follows: an absent string          *)
(* (undefined, null or "") is Undefined; an absent date is NoDate; a       *)
(* tri-state boolean is one of "true", "false", "undefined"; an object     *)
(* reference into a stop list is the index of the stop (0 = undefined).    *)
(***************************************************************************)
EXTENDS Integers, Sequences, FiniteSets, TLC

VARIABLES
    pc,                  \* position of the run: "fold", "done", "formatted", or "idle"
    pagesDone,           \* pages consumed by the for-loop of correlateDocuments
    processedPages,      \* correlateDocuments: processedPages
    allStops,            \* correlateDocuments: allStops
    consignee,           \* correlateDocuments: consignee
    consigneeAddress,    \* correlateDocuments: consigneeAddress
    pageStops,           \* the stops the last page's case pushed onto allStops (history)
    allWarnings,         \* correlateDocuments: allWarnings
    extractedStops,      \* allStops as it was when the page loop ended (history)
    synthFull,           \* number of full-exchange stops synthesized (history)
    synthMinimal,        \* number of delivery-only stops synthesized (history)
    mergedStops,         \* the ledger's stops: result of mergeStops
    lademittelmahnung,   \* result of toLademittelmahnungFormat
    v010In,              \* the V010ExtractionData handed to v010ToLademittelmahnungFormat
    v010Out,             \* its result
    valIn,               \* the record handed to validateExtraction
    valConfig,           \* the configuration handed to validateExtraction
    valOut,              \* the ValidationResult
    valOriginal,         \* the record handed to validateExtraction, as it is after the call
    remergedStops,       \* result of mergeStops applied to its own result
    labelIn,             \* the label handed to the pallet-type normalizers
    labelOut,            \* what each normalizer returned for it
    reviewIn,            \* the arguments of needsReview
    reviewOut,           \* its result
    retry,               \* one call of withRetry and what its caller does with the result
    batch,               \* one run of the batch loop over the document groups
    pool                 \* one run of extractAllPages / classifyAllPages

vars == << pc, pagesDone, processedPages, allStops, consignee, consigneeAddress,
           pageStops, allWarnings, extractedStops, synthFull, synthMinimal, mergedStops,
           lademittelmahnung, v010In, v010Out, valIn, valConfig, valOut, valOriginal,
           remergedStops, labelIn, labelOut, reviewIn, reviewOut,
           retry, batch, pool >>

corrVars == << pagesDone, processedPages, allStops, consignee, consigneeAddress,
               pageStops, allWarnings, extractedStops, synthFull, synthMinimal, mergedStops,
               lademittelmahnung >>

\* the variables of the specifications of single functions
funVars == << remergedStops, labelIn, labelOut, reviewIn, reviewOut,
             retry, batch, pool >>

\* the variables of the specifications of the asynchronous operations
opVars == << retry, batch, pool >>

\* the variables none of the asynchronous operations writes
pureVars == << v010In, v010Out, valIn, valConfig, valOut, valOriginal,
               remergedStops, labelIn, labelOut, reviewIn, reviewOut >>

(***************************************************************************)
(* Bounds and input domains                                                *)
(***************************************************************************)
MaxPages == 3

Undefined == "undefined"

NoDate == [day |-> 0, month |-> 0, year |-> 0]

PalletTypes == {"EUR", "CHEP"}

Quantities == {1, 2}

\* a PalletMovement; damaged = 0 stands for an absent or zero damaged count,
\* which the code treats alike (if (movement.damaged), existing.damaged || 0)
Mv(t, q) == [palletType |-> t, quantity |-> q, damaged |-> 0]

\* the names the oracle reports; Consignee is the delivery note's recipient
Consignee == "Mueller GmbH"

ConsigneeAddress == "Hauptstr. 5"

toLowerCase(s) ==
    CASE s = "Mueller GmbH"              -> "mueller gmbh"
      [] s = "Lager Nord"                -> "lager nord"
      [] s = "Lager Nord "               -> "lager nord "
      [] s = "Hof Sued"                  -> "hof sued"
      [] s = "Unknown"                   -> "unknown"
      [] s = "Unknown Pickup Location"   -> "unknown pickup location"
      [] s = "Unknown Delivery Location" -> "unknown delivery location"
      [] s = "Pickup Location"           -> "pickup location"
      [] s = "Pickup 1"                  -> "pickup 1"
      [] s = "__DELIVERY_LOCATION__"     -> "__delivery_location__"
      [] OTHER                           -> s

\* String.prototype.trim on the location names in play; mergeStops does not
\* call it, the documented stop identity does
trim(s) ==
    CASE s = "Lager Nord " -> "Lager Nord"
      [] s = "lager nord " -> "lager nord"
      [] OTHER             -> s

\* a || b on strings
OrStr(a, b) == IF a # Undefined THEN a ELSE b

\* b || a on dates
OrDateLatest(a, b) == IF b # NoDate THEN b ELSE a

\* a || b on dates
OrDate(a, b) == IF a # NoDate THEN a ELSE b

\* a || b || false on tri-state booleans
OrBool(a, b) == IF a = "true" \/ b = "true" THEN "true" ELSE "false"

(***************************************************************************)
(* Sequence helpers                                                        *)
(***************************************************************************)
RECURSIVE SumQuantity(_)
SumQuantity(movements) ==
    IF movements = << >> THEN 0
    ELSE Head(movements).quantity + SumQuantity(Tail(movements))

RECURSIVE FlatMapReceived(_)
FlatMapReceived(stops) ==
    IF stops = << >> THEN << >>
    ELSE Head(stops).palletsReceived \o FlatMapReceived(Tail(stops))

HasRole(stops, role) == \E i \in 1..Len(stops) : stops[i].locationType = role

(***************************************************************************)
(* lib/correlator.ts                                                       *)
(***************************************************************************)
\* index of the first movement of the given type in a list, 0 if none
RECURSIVE IndexOfType(_, _, _)
IndexOfType(movements, palletType, i) ==
    IF i > Len(movements) THEN 0
    ELSE IF movements[i].palletType = palletType THEN i
    ELSE IndexOfType(movements, palletType, i + 1)

RECURSIVE MergeMovementsFrom(_, _)
MergeMovementsFrom(movements, merged) ==
    IF movements = << >> THEN merged
    ELSE LET movement == Head(movements)
             k == IndexOfType(merged, movement.palletType, 1)
         IN  MergeMovementsFrom(Tail(movements),
                 IF k # 0
                 THEN [merged EXCEPT ![k].quantity = @ + movement.quantity,
                                     ![k].damaged = @ + movement.damaged]
                 ELSE Append(merged, movement))

mergePalletMovements(movements) == MergeMovementsFrom(movements, << >>)

\* a Partial<StopExtraction> with the fields the correlator reads
StopOf(locationType, locationName, date, received, given, exchanged) ==
    [ locationType    |-> locationType,
      locationName    |-> locationName,
      locationAddress |-> Undefined,
      date            |-> date,
      time            |-> Undefined,
      palletsReceived |-> received,
      palletsGiven    |-> given,
      exchanged       |-> exchanged ]

extractStopsFromLieferschein(data) == << >>

\* PalettennachweisRole with equal positive totals read as a pickup
PalettennachweisRoleTiePickup(totalReceived, totalGave) ==
    IF totalReceived > 0 /\ totalGave = 0 THEN "pickup"
    ELSE IF totalGave > 0 /\ totalReceived = 0 THEN "delivery"
    ELSE IF totalReceived >= totalGave THEN "pickup"
    ELSE "delivery"

\* role of an exchange receipt from the carrier-side totals
PalettennachweisRole(totalReceived, totalGave) ==
    IF totalReceived > 0 /\ totalGave = 0 THEN "pickup"
    ELSE IF totalGave > 0 /\ totalReceived = 0 THEN "delivery"
    ELSE IF totalReceived > totalGave THEN "pickup"
    ELSE "delivery"

\* extractStopsFromPalettennachweis that keeps the location's words
extractStopsFromPalettennachweisUnswapped(data) ==
    LET carrierReceived == data.palletsReceived
        carrierGave     == data.palletsGiven
        totalReceived   == SumQuantity(carrierReceived)
        totalGave       == SumQuantity(carrierGave)
        locationName    == OrStr(OrStr(data.fromCompany, data.toCompany), "Unknown")
    IN  << [ StopOf(PalettennachweisRole(totalReceived, totalGave),
                    locationName, data.date, carrierReceived, carrierGave,
                    IF Len(carrierReceived) > 0 /\ Len(carrierGave) > 0
                    THEN "true" ELSE "false")
             EXCEPT !.locationAddress = data.location ] >>

extractStopsFromPalettennachweis(data) ==
    LET carrierReceived == data.palletsGiven
        carrierGave     == data.palletsReceived
        totalReceived   == SumQuantity(carrierReceived)
        totalGave       == SumQuantity(carrierGave)
        locationName    == OrStr(OrStr(data.fromCompany, data.toCompany), "Unknown")
    IN  << [ StopOf(PalettennachweisRole(totalReceived, totalGave),
                    locationName, data.date, carrierReceived, carrierGave,
                    IF Len(carrierReceived) > 0 /\ Len(carrierGave) > 0
                    THEN "true" ELSE "false")
             EXCEPT !.locationAddress = data.location ] >>

RECURSIVE ExchangeGiven(_)
ExchangeGiven(palletExchange) ==
    IF palletExchange = << >> THEN << >>
    ELSE LET exchange == Head(palletExchange)
         IN  (IF exchange.received > 0
              THEN << Mv(exchange.palletType, exchange.received) >> ELSE << >>)
             \o ExchangeGiven(Tail(palletExchange))

RECURSIVE ExchangeReceived(_)
ExchangeReceived(palletExchange) ==
    IF palletExchange = << >> THEN << >>
    ELSE LET exchange == Head(palletExchange)
         IN  (IF exchange.returned > 0
              THEN << Mv(exchange.palletType, exchange.returned) >> ELSE << >>)
             \o ExchangeReceived(Tail(palletExchange))

extractStopsFromWareneingangsbeleg(data) ==
    LET palletsReceived == ExchangeReceived(data.palletExchange)
        palletsGiven    == ExchangeGiven(data.palletExchange)
    IN  << StopOf("delivery", "__DELIVERY_LOCATION__", data.date,
                  palletsReceived, palletsGiven,
                  IF Len(palletsReceived) > 0 /\ Len(palletsGiven) > 0
                  THEN "true" ELSE "false") >>

extractStopsFromLadeliste(data) ==
    IF data.beladeort.name # Undefined \/ data.beladeort.address # Undefined
    THEN << [ StopOf("pickup", OrStr(data.beladeort.name, "Pickup Location"),
                     OrDate(data.pickupDate, data.date),
                     data.totalPallets, << >>, Undefined)
              EXCEPT !.locationAddress = data.beladeort.address ] >>
    ELSE IF Len(data.stops) > 0
    THEN LET firstStop == data.stops[1]
         IN  << [ StopOf("pickup",
                         OrStr(firstStop.customerName, "Pickup 1"),
                         OrDate(data.pickupDate, data.date),
                         IF Len(firstStop.pallets) > 0
                         THEN firstStop.pallets ELSE data.totalPallets,
                         << >>, Undefined)
                  EXCEPT !.locationAddress = firstStop.address ] >>
    ELSE IF Len(data.totalPallets) > 0
    THEN << StopOf("pickup", "Unknown Pickup Location",
                   OrDate(data.pickupDate, data.date),
                   data.totalPallets, << >>, Undefined) >>
    ELSE << >>

\* the key of mergeStops' locationMap
MergeKey(stop) ==
    IF stop.locationName = Undefined THEN "unknown"
    ELSE toLowerCase(stop.locationName)

\* index of the entry of locationMap stored under a key, 0 if none; an entry
\* keeps the name of its first record, so its key is the key of that name
RECURSIVE IndexOfKey(_, _, _)
IndexOfKey(locationMap, key, i) ==
    IF i > Len(locationMap) THEN 0
    ELSE IF MergeKey(locationMap[i]) = key THEN i
    ELSE IndexOfKey(locationMap, key, i + 1)

\* MergeInto that keeps the entry's received movements and drops the record's
MergeIntoKeepingReceived(existing, stop) ==
    [ existing EXCEPT
        !.palletsGiven =
            mergePalletMovements(existing.palletsGiven \o stop.palletsGiven),
        !.date = OrDate(existing.date, stop.date),
        !.time = OrStr(existing.time, stop.time),
        !.locationAddress = OrStr(existing.locationAddress, stop.locationAddress),
        !.exchanged = OrBool(existing.exchanged, stop.exchanged) ]

MergeInto(existing, stop) ==
    [ existing EXCEPT
        !.palletsReceived =
            mergePalletMovements(existing.palletsReceived \o stop.palletsReceived),
        !.palletsGiven =
            mergePalletMovements(existing.palletsGiven \o stop.palletsGiven),
        !.date = OrDate(existing.date, stop.date),
        !.time = OrStr(existing.time, stop.time),
        !.locationAddress = OrStr(existing.locationAddress, stop.locationAddress),
        !.exchanged = OrBool(existing.exchanged, stop.exchanged) ]

NewEntry(stop) ==
    [ StopOf(IF stop.locationType = Undefined THEN "delivery" ELSE stop.locationType,
             OrStr(stop.locationName, "Unknown"),
             stop.date, stop.palletsReceived, stop.palletsGiven,
             OrBool(stop.exchanged, "false"))
      EXCEPT !.locationAddress = stop.locationAddress, !.time = stop.time ]

RECURSIVE MergeStopsFrom(_, _)
MergeStopsFrom(stops, locationMap) ==
    IF stops = << >> THEN locationMap
    ELSE LET stop == Head(stops)
             k    == IndexOfKey(locationMap, MergeKey(stop), 1)
         IN  MergeStopsFrom(Tail(stops),
                 IF k # 0
                 THEN [locationMap EXCEPT ![k] = MergeInto(locationMap[k], stop)]
                 ELSE Append(locationMap, NewEntry(stop)))

\* mergeStops whose locationMap starts from the list it is handed
mergeStopsOntoInput(stops) == MergeStopsFrom(stops, stops)

mergeStops(stops) == MergeStopsFrom(stops, << >>)

(***************************************************************************)
(* Values of the variables a specification does not use                    *)
(***************************************************************************)
NoV010 == [ locationType |-> Undefined, palletsGiven |-> << >>, palletsReceived |-> << >> ]

StopInfo(date, location, uebernommen, ueberlassen) ==
    [ date |-> date, location |-> location,
      uebernommen |-> uebernommen, ueberlassen |-> ueberlassen ]

NoRecord ==
    [ pickup         |-> StopInfo(Undefined, Undefined, 0, 0),
      delivery       |-> StopInfo(Undefined, Undefined, 0, 0),
      palletType     |-> "unknown",
      saldo          |-> 0,
      carrier        |-> [name |-> Undefined, licensePlate |-> Undefined],
      references     |-> [dplVoucherNr |-> Undefined],
      exchangeStatus |-> [exchanged |-> "null", partial |-> FALSE, dplIssued |-> FALSE] ]

NoValidation ==
    [ result |-> NoRecord, errors |-> << >>, warnings |-> << >>,
      corrected |-> FALSE, isValid |-> TRUE ]

NoLabelOut == [ v010 |-> "unknown", twoPass |-> "unknown" ]

NoReviewIn ==
    [ extraction |-> [ confidence |-> 0, pickup |-> [uebernommen |-> 0],
                       delivery |-> [ueberlassen |-> 0] ],
      validation |-> [ errors |-> << >>, warnings |-> << >> ],
      config     |-> [ flagLowConfidence |-> TRUE, lowConfidenceThreshold |-> 0 ] ]

\* no call of withRetry made
NoRetry ==
    [ path |-> "none", maxRetries |-> 0, initialDelayMs |-> 0, attempt |-> 0,
      at |-> "idle", responses |-> << >>, delays |-> << >>, lastError |-> 0 ]

\* main of batch.ts before it has found its groups
NoBatch ==
    [ at |-> "idle", groups |-> 0, next |-> 1, results |-> << >>,
      successCount |-> 0, failureCount |-> 0 ]

\* extractAllPages / classifyAllPages not called
NoPool ==
    [ at |-> "idle", pages |-> 0, chunkStart |-> 1, status |-> << >>,
      attempt |-> << >>, settled |-> << >>, results |-> << >> ]

NoReviewOut == [ needsReview |-> FALSE, reasons |-> << >> ]

\* lib/config.ts: DEFAULT_CONFIG.validation
DEFAULT_CONFIG == [ autoCorrectSaldo |-> TRUE, autoCorrectExchangeStatus |-> TRUE ]

(***************************************************************************)
(* What processPage returns for one page: the classified document type and *)
(* the extractor's data.  The record carries the fields of all four data   *)
(* shapes; an extractor fills the fields of its own shape and the others   *)
(* stay absent.                                                             *)
(***************************************************************************)
NoData ==
    [ recipientName  |-> Undefined,      \* LieferscheinData.recipient.name
      lieferdatum    |-> NoDate,         \* LieferscheinData.lieferdatum
      palletInfo     |-> << >>,          \* LieferscheinData.palletInfo
      recipientAddress |-> Undefined,    \* LieferscheinData.recipient.address
      location       |-> Undefined,      \* PalettennachweisData.location
      fromCompany    |-> Undefined,      \* PalettennachweisData.fromCompany
      toCompany      |-> Undefined,      \* PalettennachweisData.toCompany
      palletsGiven   |-> << >>,          \* PalettennachweisData.palletsGiven
      palletsReceived |-> << >>,         \* PalettennachweisData.palletsReceived
      palletExchange |-> << >>,          \* WareneingangselegData.palletExchange
      beladeort      |-> [name |-> Undefined, address |-> Undefined],
      pickupDate     |-> NoDate,         \* LadelisteData.pickupDate
      stops          |-> << >>,          \* LadelisteData.stops
      totalPallets   |-> << >>,          \* LadelisteData.totalPallets
      date           |-> NoDate ]

DocumentPage(documentType, hasData, data) ==
    [ documentType |-> documentType, hasData |-> hasData, rawExtraction |-> data ]

\* dates as the three groups parseDateToNumber's pattern matches
LadelisteDate  == [day |-> 13, month |-> 11, year |-> 2025]
Lieferdatum    == [day |-> 14, month |-> 11, year |-> 25]
NachweisDate   == [day |-> 12, month |-> 11, year |-> 2025]

\* extractLieferschein: recipient and palletInfo as the oracle reports them
LieferscheinInputs ==
    { [NoData EXCEPT !.recipientName = r[1], !.recipientAddress = r[2],
                     !.palletInfo = pi, !.lieferdatum = Lieferdatum] :
        r \in { << Undefined, Undefined >>, << Consignee, ConsigneeAddress >> },
        pi \in {<< >>, << [Mv("EUR", 2) EXCEPT !.damaged = 1] >>} }

\* extractPalettennachweis: given / received are in the location's words
\* (quantity: p.quantity || 0 keeps a movement the oracle reports with 0)
PalettennachweisInputs ==
    { [NoData EXCEPT !.fromCompany = n, !.palletsGiven = gr[1],
                     !.palletsReceived = gr[2], !.date = NachweisDate,
                     !.location = IF n = "mueller gmbh" THEN "Werkstr. 2" ELSE Undefined] :
        n \in {Undefined, "Lager Nord", "mueller gmbh"},
        gr \in { << << Mv("EUR", 1) >>, << >> >>,
                 << << >>, << Mv("EUR", 1) >> >>,
                 << << Mv("EUR", 2) >>, << Mv("CHEP", 1) >> >> } }
    \cup { [NoData EXCEPT !.fromCompany = "Lager Nord", !.palletsGiven = gr[1],
                          !.palletsReceived = gr[2], !.date = NachweisDate] :
        gr \in { << << Mv("CHEP", 1) >>, << Mv("EUR", 1) >> >>,
                 << << Mv("EUR", 1) >>, << Mv("EUR", 2) >> >> } }
    \cup { [NoData EXCEPT !.fromCompany = "Lager Nord", !.date = NachweisDate,
                          !.palletsGiven = << Mv("EUR", 0) >>] }

\* extractWareneingangsbeleg
WareneingangsbelegInputs ==
    { [NoData EXCEPT !.palletExchange = pe] :
        pe \in { << >>,
                 << [palletType |-> "EUR", received |-> 2, returned |-> 1] >>,
                 << [palletType |-> "CHEP", received |-> 0, returned |-> 1] >> } }

\* extractLadeliste builds LadelisteData without beladeort and pickupDate
LadelisteInputs ==
    { [NoData EXCEPT !.stops = st, !.totalPallets = tp, !.date = LadelisteDate] :
        st \in { << >>,
                 << [stopNumber |-> 1, customerName |-> Undefined, address |-> Undefined,
                     pallets |-> << >>] >>,
                 << [stopNumber |-> 1, customerName |-> "Lager Nord ", address |-> "Kai 7",
                     pallets |-> << Mv("CHEP", 1) >>] >> },
        tp \in {<< >>, << Mv("EUR", 2) >>} }

(***************************************************************************)
(* correlateDocuments: one iteration of the page loop per action           *)
(***************************************************************************)
InFold == pc = "fold" /\ pagesDone < MaxPages

FoldFrame == UNCHANGED << pc, extractedStops, synthFull, synthMinimal, mergedStops,
                          lademittelmahnung, v010In, v010Out, valIn, valConfig, valOut, valOriginal,
                          funVars >>

PageLieferschein ==
    /\ InFold
    /\ \E data \in LieferscheinInputs :
         /\ processedPages' = Append(processedPages, DocumentPage("lieferschein", TRUE, data))
         /\ consignee' = OrStr(consignee, data.recipientName)
         /\ consigneeAddress' = OrStr(consigneeAddress, data.recipientAddress)
         /\ pageStops' = extractStopsFromLieferschein(data)
         /\ allStops' = allStops \o extractStopsFromLieferschein(data)
    /\ pagesDone' = pagesDone + 1
    /\ UNCHANGED allWarnings
    /\ FoldFrame

PagePalettennachweis ==
    /\ InFold
    /\ \E data \in PalettennachweisInputs :
         /\ processedPages' = Append(processedPages, DocumentPage("palettennachweis", TRUE, data))
         /\ pageStops' = extractStopsFromPalettennachweis(data)
         /\ allStops' = allStops \o extractStopsFromPalettennachweis(data)
    /\ pagesDone' = pagesDone + 1
    /\ UNCHANGED << consignee, consigneeAddress, allWarnings >>
    /\ FoldFrame

PageWareneingangsbeleg ==
    /\ InFold
    /\ \E data \in WareneingangsbelegInputs :
         /\ processedPages' = Append(processedPages, DocumentPage("wareneingangsbeleg", TRUE, data))
         /\ pageStops' = extractStopsFromWareneingangsbeleg(data)
         /\ allStops' = allStops \o extractStopsFromWareneingangsbeleg(data)
    /\ pagesDone' = pagesDone + 1
    /\ UNCHANGED << consignee, consigneeAddress, allWarnings >>
    /\ FoldFrame

PageLadeliste ==
    /\ InFold
    /\ \E data \in LadelisteInputs :
         /\ processedPages' = Append(processedPages, DocumentPage("ladeliste", TRUE, data))
         /\ pageStops' = extractStopsFromLadeliste(data)
         /\ allStops' = allStops \o extractStopsFromLadeliste(data)
    /\ pagesDone' = pagesDone + 1
    /\ UNCHANGED << consignee, consigneeAddress, allWarnings >>
    /\ FoldFrame

\* extractByType's default branch: success = false, no data, one warning
PageUnknown ==
    /\ InFold
    /\ processedPages' = Append(processedPages, DocumentPage("unknown", FALSE, NoData))
    /\ allWarnings' = Append(allWarnings, "Unknown document type - no extraction performed")
    /\ pagesDone' = pagesDone + 1
    /\ pageStops' = << >>
    /\ UNCHANGED << allStops, consignee, consigneeAddress >>
    /\ FoldFrame

\* the warning of the catch block; page.pageNumber is the page's position
FailedPageWarning(pageNumber) == "Failed to process page " \o ToString(pageNumber)

\* a catch block that records nothing
PageFailsSilently ==
    /\ InFold
    /\ pagesDone' = pagesDone + 1
    /\ pageStops' = << >>
    /\ UNCHANGED << processedPages, allStops, consignee, consigneeAddress, allWarnings >>
    /\ FoldFrame

\* processPage rejects (classifyPage or extractByType failed on its last
\* attempt): the catch block records the page and the loop goes on
PageFails ==
    /\ InFold
    /\ allWarnings' = Append(allWarnings, FailedPageWarning(pagesDone + 1))
    /\ pagesDone' = pagesDone + 1
    /\ pageStops' = << >>
    /\ UNCHANGED << processedPages, allStops, consignee, consigneeAddress >>
    /\ FoldFrame

(***************************************************************************)
(* correlateDocuments: the code after the page loop                        *)
(***************************************************************************)
\* the loop over allStops that names the goods-receipt stops
RECURSIVE ResolveDeliveryLocation(_, _)
ResolveDeliveryLocation(stops, consigneeName) ==
    IF stops = << >> THEN << >>
    ELSE LET stop == Head(stops)
         IN  << IF stop.locationName = "__DELIVERY_LOCATION__"
                THEN [stop EXCEPT !.locationName =
                        IF consigneeName # Undefined THEN consigneeName
                        ELSE "Unknown Delivery Location"]
                ELSE stop >>
             \o ResolveDeliveryLocation(Tail(stops), consigneeName)

RECURSIVE DeliveryLocationWarnings(_, _)
DeliveryLocationWarnings(stops, consigneeName) ==
    IF stops = << >> THEN << >>
    ELSE (IF Head(stops).locationName = "__DELIVERY_LOCATION__" /\ consigneeName = Undefined
          THEN << "Delivery location not found in Lieferschein" >> ELSE << >>)
         \o DeliveryLocationWarnings(Tail(stops), consigneeName)

\* stop.locationAddress = consigneeAddress, in the same loop
RECURSIVE ResolveDeliveryAddress(_, _, _)
ResolveDeliveryAddress(stops, consigneeName, address) ==
    IF stops = << >> THEN << >>
    ELSE LET stop == Head(stops)
         IN  << IF stop.locationName = "__DELIVERY_LOCATION__" /\ consigneeName # Undefined
                THEN [stop EXCEPT !.locationAddress = address]
                ELSE stop >>
             \o ResolveDeliveryAddress(Tail(stops), consigneeName, address)

\* lieferDatum: the first delivery note's date that is present
RECURSIVE LieferDatumOf(_)
LieferDatumOf(pages) ==
    IF pages = << >> THEN NoDate
    ELSE LET page == Head(pages)
         IN  IF page.documentType = "lieferschein" /\ page.hasData
                /\ page.rawExtraction.lieferdatum # NoDate
             THEN page.rawExtraction.lieferdatum
             ELSE LieferDatumOf(Tail(pages))

\* lieferscheinPallets: the last non-empty palletInfo of a delivery note
RECURSIVE LieferscheinPalletsOf(_, _)
LieferscheinPalletsOf(pages, lieferscheinPallets) ==
    IF pages = << >> THEN lieferscheinPallets
    ELSE LET page == Head(pages)
         IN  LieferscheinPalletsOf(Tail(pages),
                 IF page.documentType = "lieferschein" /\ page.hasData
                    /\ Len(page.rawExtraction.palletInfo) > 0
                 THEN page.rawExtraction.palletInfo
                 ELSE lieferscheinPallets)

\* index of the first loading list with a non-empty totalPallets, 0 if none
RECURSIVE FirstLadelisteWithTotal(_, _)
FirstLadelisteWithTotal(pages, i) ==
    IF i > Len(pages) THEN 0
    ELSE IF pages[i].documentType = "ladeliste" /\ pages[i].hasData
            /\ Len(pages[i].rawExtraction.totalPallets) > 0
    THEN i
    ELSE FirstLadelisteWithTotal(pages, i + 1)

PickupStops(stops) == SelectSeq(stops, LAMBDA st : st.locationType = "pickup")

\* GapFillGuard without the test for an existing delivery stop
GapFillGuardIgnoringDelivery(stops, consigneeName) ==
    /\ HasRole(stops, "pickup")
    /\ consigneeName # Undefined

\* if (hasPickupStops && !hasDeliveryStops && consignee)
GapFillGuard(stops, consigneeName) ==
    /\ HasRole(stops, "pickup")
    /\ ~ HasRole(stops, "delivery")
    /\ consigneeName # Undefined

\* const deliveryPallets = pickupPallets.length > 0 ? pickupPallets : lieferscheinPallets
DeliveryPallets(stops, pages) ==
    LET pickupPallets == FlatMapReceived(PickupStops(stops))
    IN  IF Len(pickupPallets) > 0 THEN pickupPallets
        ELSE LieferscheinPalletsOf(pages, << >>)

GapFillStop(stops, consigneeName, pages) ==
    StopOf("delivery", consigneeName, LieferDatumOf(pages),
           DeliveryPallets(stops, pages), DeliveryPallets(stops, pages), "true")

\* MinimalGuard without the test for an empty stop list
MinimalGuardConsigneeOnly(stops, consigneeName) ==
    consigneeName # Undefined

\* if (allStops.length === 0 && consignee)
MinimalGuard(stops, consigneeName) ==
    Len(stops) = 0 /\ consigneeName # Undefined

PalletsToUse(pages) ==
    LET k == FirstLadelisteWithTotal(pages, 1)
        totalPallets == IF k # 0 THEN pages[k].rawExtraction.totalPallets ELSE << >>
    IN  IF Len(totalPallets) > 0 THEN totalPallets
        ELSE LieferscheinPalletsOf(pages, << >>)

DateToUse(pages) ==
    LET k == FirstLadelisteWithTotal(pages, 1)
        ladelisteDate == IF k # 0 THEN pages[k].rawExtraction.date ELSE NoDate
    IN  OrDate(ladelisteDate, LieferDatumOf(pages))

MinimalStop(consigneeName, pages) ==
    StopOf("delivery", consigneeName, DateToUse(pages),
           << >>, PalletsToUse(pages), "false")

AssumedExchangeWarning ==
    "No wareneingangsbeleg found. Created delivery stop from Lieferschein consignee. Pallet exchange assumed (deliveryReceived = deliveryGiven)."

MinimalStopWarning ==
    "No palettennachweis, wareneingangsbeleg, or ladeliste stops found. Created minimal delivery stop."

\* the pages are exhausted: resolve, fill the gap, merge, return the ledger
Finish ==
    /\ pc = "fold"
    /\ LET resolved    == ResolveDeliveryLocation(
                              ResolveDeliveryAddress(allStops, consignee, consigneeAddress),
                              consignee)
           gapFill     == GapFillGuard(resolved, consignee)
                          /\ (Len(DeliveryPallets(resolved, processedPages)) > 0
                              \/ consignee # Undefined)
           afterFill   == IF gapFill
                          THEN Append(resolved,
                                   [GapFillStop(resolved, consignee, processedPages)
                                      EXCEPT !.locationAddress = consigneeAddress])
                          ELSE resolved
           minimal     == MinimalGuard(afterFill, consignee)
                          /\ Len(PalletsToUse(processedPages)) > 0
           afterMin    == IF minimal
                          THEN Append(afterFill,
                                   [MinimalStop(consignee, processedPages)
                                      EXCEPT !.locationAddress = consigneeAddress])
                          ELSE afterFill
       IN  /\ extractedStops' = allStops
           /\ allStops' = afterMin
           /\ synthFull' = synthFull + (IF gapFill THEN 1 ELSE 0)
           /\ synthMinimal' = synthMinimal + (IF minimal THEN 1 ELSE 0)
           /\ allWarnings' = allWarnings
                  \o DeliveryLocationWarnings(allStops, consignee)
                  \o (IF gapFill THEN << AssumedExchangeWarning >> ELSE << >>)
                  \o (IF minimal THEN << MinimalStopWarning >> ELSE << >>)
           /\ mergedStops' = mergeStops(afterMin)
    /\ pc' = "done"
    /\ UNCHANGED << pagesDone, processedPages, consignee, consigneeAddress,
                    pageStops, lademittelmahnung,
                    v010In, v010Out, valIn, valConfig, valOut, valOriginal, funVars >>

(***************************************************************************)
(* lib/output-generator.ts                                                 *)
(***************************************************************************)
parseDateToNumber(date) ==
    IF date = NoDate THEN 0
    ELSE LET year == IF date.year < 100
                     THEN date.year + (IF date.year < 50 THEN 2000 ELSE 1900)
                     ELSE date.year
         IN  year * 10000 + date.month * 100 + date.day

\* [...stops].sort(by date): the indices of the stops in sorted order; the
\* sort is stable, stops with equal dates keep their order
SortedByDate(stops) ==
    LET n == Len(stops)
        key(i) == parseDateToNumber(stops[i].date)
        rank(i) == Cardinality({ j \in 1..n :
                       key(j) < key(i) \/ (key(j) = key(i) /\ j < i) }) + 1
    IN  [ k \in 1..n |-> CHOOSE i \in 1..n : rank(i) = k ]

\* stops.find(s => s.locationType === role), as an index
RECURSIVE FindRole(_, _, _)
FindRole(stops, role, i) ==
    IF i > Len(stops) THEN 0
    ELSE IF stops[i].locationType = role THEN i
    ELSE FindRole(stops, role, i + 1)

\* first stop in sorted order that is not the excluded one
RECURSIVE FirstOther(_, _, _)
FirstOther(sorted, k, excluded) ==
    IF k > Len(sorted) THEN 0
    ELSE IF sorted[k] # excluded THEN sorted[k]
    ELSE FirstOther(sorted, k + 1, excluded)

\* last stop in sorted order that is not the excluded one
RECURSIVE LastOther(_, _, _)
LastOther(sorted, k, excluded) ==
    IF k < 1 THEN 0
    ELSE IF sorted[k] # excluded THEN sorted[k]
    ELSE LastOther(sorted, k - 1, excluded)

\* the loop over stops that falls back on movement totals
RECURSIVE ByTotals(_, _, _)
ByTotals(stops, i, pd) ==
    IF i > Len(stops) THEN pd
    ELSE LET totalReceived == SumQuantity(stops[i].palletsReceived)
             totalGiven    == SumQuantity(stops[i].palletsGiven)
         IN  ByTotals(stops, i + 1,
                 IF totalReceived > totalGiven /\ (pd.pickup = 0 \/ i # pd.delivery)
                 THEN [pd EXCEPT !.pickup = i]
                 ELSE IF totalGiven > 0 /\ (pd.delivery = 0 \/ i # pd.pickup)
                 THEN [pd EXCEPT !.delivery = i]
                 ELSE pd)

HasPositive(movements) == \E i \in 1..Len(movements) : movements[i].quantity > 0

determinePickupAndDelivery(stops) ==
    IF Len(stops) = 0 THEN [pickup |-> 0, delivery |-> 0]
    ELSE
    LET pickup0   == FindRole(stops, "pickup", 1)
        delivery0 == FindRole(stops, "delivery", 1)
        sorted    == SortedByDate(stops)
        pickup1   == IF pickup0 = 0 THEN FirstOther(sorted, 1, delivery0) ELSE pickup0
        delivery1 == IF delivery0 = 0 THEN LastOther(sorted, Len(sorted), pickup1)
                     ELSE delivery0
        pd2       == IF pickup1 = 0 \/ delivery1 = 0 \/ pickup1 = delivery1
                     THEN ByTotals(stops, 1, [pickup |-> pickup1, delivery |-> delivery1])
                     ELSE [pickup |-> pickup1, delivery |-> delivery1]
    IN  IF pickup0 # 0 /\ delivery0 # 0 /\ pickup0 # delivery0
        THEN [pickup |-> pickup0, delivery |-> delivery0]
        ELSE IF Len(stops) = 1 /\ HasPositive(stops[1].palletsReceived)
                /\ ~ HasPositive(stops[1].palletsGiven)
        THEN [pickup |-> 1, delivery |-> 0]
        ELSE IF Len(stops) = 1 /\ HasPositive(stops[1].palletsGiven)
        THEN [pickup |-> 0, delivery |-> 1]
        ELSE pd2

sumPallets(movements, palletType) ==
    SumQuantity(SelectSeq(movements, LAMBDA m : m.palletType = palletType))

\* the pallet types of all stops, in the order the Set first sees them
RECURSIVE AddTypes(_, _)
AddTypes(movements, seen) ==
    IF movements = << >> THEN seen
    ELSE AddTypes(Tail(movements),
             IF \E k \in 1..Len(seen) : seen[k] = Head(movements).palletType
             THEN seen ELSE Append(seen, Head(movements).palletType))

RECURSIVE TypesOfStops(_, _)
TypesOfStops(stops, seen) ==
    IF stops = << >> THEN seen
    ELSE TypesOfStops(Tail(stops),
             AddTypes(Head(stops).palletsReceived \o Head(stops).palletsGiven, seen))

\* effectivePickup?.palletsReceived || [], and the like
ReceivedAt(stops, i) == IF i = 0 THEN << >> ELSE stops[i].palletsReceived
GivenAt(stops, i)    == IF i = 0 THEN << >> ELSE stops[i].palletsGiven

\* MovementRow with the delivery-side exchange netted into the saldo
MovementRowNetOfDelivery(stops, pd, palletType) ==
    LET pickupReceived   == sumPallets(ReceivedAt(stops, pd.pickup), palletType)
        pickupGiven      == sumPallets(GivenAt(stops, pd.pickup), palletType)
        deliveryGiven    == sumPallets(GivenAt(stops, pd.delivery), palletType)
        deliveryReceived == sumPallets(ReceivedAt(stops, pd.delivery), palletType)
    IN  [ palletType       |-> palletType,
          pickupReceived   |-> pickupReceived,
          pickupGiven      |-> pickupGiven,
          deliveryGiven    |-> deliveryGiven,
          deliveryReceived |-> deliveryReceived,
          saldo            |-> (pickupGiven + deliveryGiven)
                               - (pickupReceived + deliveryReceived) ]

\* one row of palletMovements for a pallet type
MovementRow(stops, pd, palletType) ==
    LET pickupReceived   == sumPallets(ReceivedAt(stops, pd.pickup), palletType)
        pickupGiven      == sumPallets(GivenAt(stops, pd.pickup), palletType)
        deliveryGiven    == sumPallets(GivenAt(stops, pd.delivery), palletType)
        deliveryReceived == sumPallets(ReceivedAt(stops, pd.delivery), palletType)
    IN  [ palletType       |-> palletType,
          pickupReceived   |-> pickupReceived,
          pickupGiven      |-> pickupGiven,
          deliveryGiven    |-> deliveryGiven,
          deliveryReceived |-> deliveryReceived,
          saldo            |-> pickupGiven - pickupReceived ]

RowEmitted(row) ==
    \/ row.pickupReceived > 0
    \/ row.pickupGiven > 0
    \/ row.deliveryGiven > 0
    \/ row.deliveryReceived > 0

RECURSIVE MovementRows(_, _, _)
MovementRows(stops, pd, types) ==
    IF types = << >> THEN << >>
    ELSE LET row == MovementRow(stops, pd, Head(types))
         IN  (IF RowEmitted(row) THEN << row >> ELSE << >>)
             \o MovementRows(stops, pd, Tail(types))

NoOutput ==
    [ isNull |-> TRUE, pickup |-> 0, delivery |-> 0, palletMovements |-> << >> ]

toLademittelmahnungFormat(stops) ==
    LET pd == determinePickupAndDelivery(stops)
    IN  IF pd.pickup = 0 /\ pd.delivery = 0 THEN NoOutput
        ELSE [ isNull |-> FALSE, pickup |-> pd.pickup, delivery |-> pd.delivery,
               palletMovements |-> MovementRows(stops, pd, TypesOfStops(stops, << >>)) ]

\* processSingleFile: the ledger is handed to toLademittelmahnungFormat
Format ==
    /\ pc = "done"
    /\ lademittelmahnung' = toLademittelmahnungFormat(mergedStops)
    /\ pc' = "formatted"
    /\ UNCHANGED << pagesDone, processedPages, allStops, consignee,
                    consigneeAddress, pageStops, allWarnings,
                    extractedStops, synthFull, synthMinimal, mergedStops,
                    v010In, v010Out, valIn, valConfig, valOut, valOriginal, funVars >>

InitCorr ==
    /\ pc = "fold"
    /\ pagesDone = 0
    /\ processedPages = << >>
    /\ allStops = << >>
    /\ consignee = Undefined
    /\ consigneeAddress = Undefined
    /\ pageStops = << >>
    /\ allWarnings = << >>
    /\ extractedStops = << >>
    /\ synthFull = 0
    /\ synthMinimal = 0
    /\ mergedStops = << >>
    /\ lademittelmahnung = NoOutput
    /\ v010In = NoV010
    /\ v010Out = << >>
    /\ valIn = NoRecord
    /\ valConfig = DEFAULT_CONFIG
    /\ valOut = NoValidation
    /\ valOriginal = NoRecord
    /\ remergedStops = << >>
    /\ labelIn = << >>
    /\ labelOut = NoLabelOut
    /\ reviewIn = NoReviewIn
    /\ reviewOut = NoReviewOut
    /\ retry = NoRetry
    /\ batch = NoBatch
    /\ pool = NoPool

NextCorr ==
    \/ PageLieferschein
    \/ PagePalettennachweis
    \/ PageWareneingangsbeleg
    \/ PageLadeliste
    \/ PageUnknown
    \/ PageFails
    \/ Finish
    \/ Format

SpecCorr == InitCorr /\ [][NextCorr]_vars

(***************************************************************************)
(* correlateDocuments over files of exchange receipts whose quantities the  *)
(* oracle read as negative, zero or positive: extractPalettennachweis       *)
(* keeps any number (quantity: p.quantity || 0).                            *)
(***************************************************************************)
SignedReceiptInputs ==
    { [NoData EXCEPT !.fromCompany = "Lager Nord", !.date = NachweisDate,
                     !.palletsGiven = g, !.palletsReceived = r] :
        g \in { << >>, << Mv("EUR", 0 - 1) >>, << Mv("EUR", 0) >>, << Mv("EUR", 1) >> },
        r \in { << >>, << Mv("EUR", 0 - 1) >>, << Mv("EUR", 0) >>, << Mv("EUR", 1) >> } }
    \cup
    { [NoData EXCEPT !.fromCompany = "Hof Sued", !.date = NachweisDate,
                     !.palletsGiven = gr[1], !.palletsReceived = gr[2]] :
        gr \in { << << Mv("EUR", 1) >>, << >> >>, << << >>, << Mv("EUR", 1) >> >> } }

\* case "palettennachweis" of the page loop, on these receipts
PageSignedReceipt ==
    /\ InFold
    /\ \E data \in SignedReceiptInputs :
         /\ processedPages' = Append(processedPages, DocumentPage("palettennachweis", TRUE, data))
         /\ pageStops' = extractStopsFromPalettennachweis(data)
         /\ allStops' = allStops \o extractStopsFromPalettennachweis(data)
    /\ pagesDone' = pagesDone + 1
    /\ UNCHANGED << consignee, consigneeAddress, allWarnings >>
    /\ FoldFrame

NextReceipts == PageSignedReceipt \/ Finish \/ Format

SpecReceipts == InitCorr /\ [][NextReceipts]_vars

(***************************************************************************)
(* lib/output-generator.ts: v010ToLademittelmahnungFormat                  *)
(***************************************************************************)
V010Mv(t, q) == [type |-> t, qty |-> q]

RECURSIVE SumQty(_)
SumQty(movements) ==
    IF movements = << >> THEN 0
    ELSE Head(movements).qty + SumQty(Tail(movements))

sumV010Pallets(movements, palletType) ==
    SumQty(SelectSeq(movements, LAMBDA m : m.type = palletType))

RECURSIVE AddV010Types(_, _)
AddV010Types(movements, seen) ==
    IF movements = << >> THEN seen
    ELSE AddV010Types(Tail(movements),
             IF \E k \in 1..Len(seen) : seen[k] = Head(movements).type
             THEN seen ELSE Append(seen, Head(movements).type))

\* the row pushed for one pallet type
V010Row(extraction, palletType) ==
    LET given    == sumV010Pallets(extraction.palletsGiven, palletType)
        received == sumV010Pallets(extraction.palletsReceived, palletType)
        saldo    == given - received
    IN  IF extraction.locationType = "pickup"
        THEN [ palletType |-> palletType,
               pickupReceived |-> given, pickupGiven |-> received,
               deliveryGiven |-> 0, deliveryReceived |-> 0,
               saldo |-> saldo ]
        ELSE [ palletType |-> palletType,
               pickupReceived |-> 0, pickupGiven |-> 0,
               deliveryGiven |-> given, deliveryReceived |-> received,
               saldo |-> saldo ]

RECURSIVE V010Rows(_, _)
V010Rows(extraction, types) ==
    IF types = << >> THEN << >>
    ELSE LET given    == sumV010Pallets(extraction.palletsGiven, Head(types))
             received == sumV010Pallets(extraction.palletsReceived, Head(types))
         IN  (IF given > 0 \/ received > 0
              THEN << V010Row(extraction, Head(types)) >> ELSE << >>)
             \o V010Rows(extraction, Tail(types))

\* the palletMovements of the LademittelmahnungOutput
v010ToLademittelmahnungFormat(extraction) ==
    V010Rows(extraction,
             AddV010Types(extraction.palletsGiven \o extraction.palletsReceived, << >>))

\* movement lists as normalizePalletMovements leaves them: every qty > 0
V010Movements == { V010Mv(t, q) : t \in PalletTypes, q \in Quantities }

V010Lists ==
    { << >> } \cup { << m >> : m \in V010Movements }
              \cup { << m, n >> : m \in V010Movements, n \in V010Movements }

\* locationType as normalizeLocationType leaves it
V010Inputs ==
    [ locationType : {"pickup", "delivery", "handoff"},
      palletsGiven : V010Lists, palletsReceived : V010Lists ]

\* processGroup: validExtractions.map(v010ToLademittelmahnungFormat), one element
V010Convert ==
    /\ pc = "idle"
    /\ \E extraction \in V010Inputs :
         /\ v010In' = extraction
         /\ v010Out' = v010ToLademittelmahnungFormat(extraction)
    /\ pc' = "converted"
    /\ UNCHANGED corrVars
    /\ UNCHANGED << valIn, valConfig, valOut, valOriginal, funVars >>

InitIdle ==
    /\ pc = "idle"
    /\ pagesDone = 0
    /\ processedPages = << >>
    /\ allStops = << >>
    /\ consignee = Undefined
    /\ consigneeAddress = Undefined
    /\ pageStops = << >>
    /\ allWarnings = << >>
    /\ extractedStops = << >>
    /\ synthFull = 0
    /\ synthMinimal = 0
    /\ mergedStops = << >>
    /\ lademittelmahnung = NoOutput
    /\ v010In = NoV010
    /\ v010Out = << >>
    /\ valIn = NoRecord
    /\ valConfig = DEFAULT_CONFIG
    /\ valOut = NoValidation
    /\ valOriginal = NoRecord
    /\ remergedStops = << >>
    /\ labelIn = << >>
    /\ labelOut = NoLabelOut
    /\ reviewIn = NoReviewIn
    /\ reviewOut = NoReviewOut
    /\ retry = NoRetry
    /\ batch = NoBatch
    /\ pool = NoPool

NextV010 == V010Convert

SpecV010 == InitIdle /\ [][NextV010]_vars

(***************************************************************************)
(* lib/validation.ts: validateExtraction                                   *)
(***************************************************************************)
MaxQty == 2

SaldoMismatch == "Saldo mismatch"
ExchangeInconsistent == "Inconsistent: marked as not exchanged but uebernommen > 0 at delivery"
DplConflict == "DPL voucher issued but marked as fully exchanged"
NegativeQuantities == "Negative pallet quantities detected"

\* check 1: the saldo the validator expects
expectedSaldo(result) == result.delivery.uebernommen - result.delivery.ueberlassen

\* HasNegativeQuantity looking at the pickup side only
HasNegativeQuantityPickupOnly(result) ==
    \/ result.pickup.uebernommen < 0
    \/ result.pickup.ueberlassen < 0

\* check 8: the condition of the negative-quantity error
HasNegativeQuantity(result) ==
    \/ result.pickup.uebernommen < 0
    \/ result.pickup.ueberlassen < 0
    \/ result.delivery.uebernommen < 0
    \/ result.delivery.ueberlassen < 0

\* JSON.parse(JSON.stringify(extraction)): a new object with the same values
\* (a property holding undefined is dropped and reads as undefined again)
JsonCopy(extraction) ==
    [ pickup         |-> StopInfo(extraction.pickup.date, extraction.pickup.location,
                                  extraction.pickup.uebernommen, extraction.pickup.ueberlassen),
      delivery       |-> StopInfo(extraction.delivery.date, extraction.delivery.location,
                                  extraction.delivery.uebernommen,
                                  extraction.delivery.ueberlassen),
      palletType     |-> extraction.palletType,
      saldo          |-> extraction.saldo,
      carrier        |-> [name |-> extraction.carrier.name,
                          licensePlate |-> extraction.carrier.licensePlate],
      references     |-> [dplVoucherNr |-> extraction.references.dplVoucherNr],
      exchangeStatus |-> [exchanged |-> extraction.exchangeStatus.exchanged,
                          partial   |-> extraction.exchangeStatus.partial,
                          dplIssued |-> extraction.exchangeStatus.dplIssued] ]

\* the objects validateExtraction holds: its argument and the copy it makes
ValObjects == {"extraction", "result"}

\* the corrections written to the argument itself
resultIsArgument == "extraction"

\* the object the corrections are written to
resultObject == "result"

\* check 4 leaving the exchange status as it found it
ResolveDplConflictKeeping(result, config) == result

\* check 4: the auto-correction of a DPL conflict
ResolveDplConflict(result, config) ==
    IF /\ result.exchangeStatus.dplIssued
       /\ result.exchangeStatus.exchanged = "true"
       /\ config.autoCorrectExchangeStatus
    THEN [result EXCEPT !.exchangeStatus.exchanged = "false"]
    ELSE result

validateExtraction(extraction, config) ==
    LET \* the checks read and write the copy
        result == JsonCopy(extraction)
        \* 1. saldo
        mismatch == result.saldo # expectedSaldo(result)
        r1 == IF mismatch /\ config.autoCorrectSaldo
              THEN [result EXCEPT !.saldo = expectedSaldo(result)]
              ELSE result
        \* 2. exchange consistency
        inconsistent == r1.exchangeStatus.exchanged = "false"
                        /\ r1.delivery.uebernommen > 0
        r2 == IF inconsistent /\ config.autoCorrectExchangeStatus
              THEN IF r1.delivery.uebernommen = r1.delivery.ueberlassen
                   THEN [r1 EXCEPT !.exchangeStatus.exchanged = "true"]
                   ELSE [r1 EXCEPT !.exchangeStatus.partial = TRUE]
              ELSE r1
        \* 4. DPL consistency, read after check 2 has written
        conflict == r2.exchangeStatus.dplIssued /\ r2.exchangeStatus.exchanged = "true"
        r3 == ResolveDplConflict(r2, config)
        errors ==
            (IF mismatch THEN << SaldoMismatch >> ELSE << >>)
            \o (IF inconsistent THEN << ExchangeInconsistent >> ELSE << >>)
            \o (IF conflict THEN << DplConflict >> ELSE << >>)
            \o (IF HasNegativeQuantity(r3) THEN << NegativeQuantities >> ELSE << >>)
        warnings ==
            (IF r3.delivery.ueberlassen # r3.pickup.uebernommen
             THEN << "ueberlassen at delivery doesn't match uebernommen at pickup" >>
             ELSE << >>)
            \o (IF r3.exchangeStatus.dplIssued /\ r3.references.dplVoucherNr = Undefined
                THEN << "DPL marked as issued but no voucher number provided" >>
                ELSE << >>)
            \o (IF r3.pickup.date = Undefined /\ r3.delivery.date = Undefined
                THEN << "No date found for pickup or delivery" >> ELSE << >>)
            \o (IF r3.pickup.location = Undefined /\ r3.delivery.location = Undefined
                THEN << "No location found for pickup or delivery" >> ELSE << >>)
            \o (IF r3.carrier.name = Undefined /\ r3.carrier.licensePlate = Undefined
                THEN << "No carrier identification (name or license plate)" >>
                ELSE << >>)
            \o (IF r3.pickup.uebernommen = 0 /\ r3.pickup.ueberlassen = 0
                   /\ r3.delivery.uebernommen = 0 /\ r3.delivery.ueberlassen = 0
                THEN << "No pallet movements detected" >> ELSE << >>)
            \o (IF r3.palletType = "unknown"
                THEN << "Pallet type is unknown" >> ELSE << >>)
            \o (IF r3.exchangeStatus.exchanged = "null"
                THEN << "Exchange status is unclear (null)" >> ELSE << >>)
    IN  [ result    |-> r3,
          errors    |-> errors,
          warnings  |-> warnings,
          corrected |-> \/ (mismatch /\ config.autoCorrectSaldo)
                        \/ (inconsistent /\ config.autoCorrectExchangeStatus)
                        \/ (conflict /\ config.autoCorrectExchangeStatus),
          isValid   |-> Len(errors) = 0 ]

\* the two objects when validateExtraction returns
ObjectsAfter(extraction, config) ==
    LET before == [o \in ValObjects |->
                      IF o = "extraction" THEN extraction ELSE JsonCopy(extraction)]
    IN  [before EXCEPT ![resultObject] = validateExtraction(extraction, config).result]

\* records as normalizeExtraction (lib/extractor-twopass.ts) leaves them
ValQuantities == (0 - 1)..MaxQty

ValRecords ==
    { [ pickup         |-> StopInfo(meta, meta, pr, pg),
        delivery       |-> StopInfo(Undefined, Undefined, dr, dg),
        palletType     |-> IF meta = Undefined THEN "unknown" ELSE "EUR",
        saldo          |-> sal,
        carrier        |-> [name |-> meta, licensePlate |-> Undefined],
        references     |-> [dplVoucherNr |-> Undefined],
        exchangeStatus |-> [exchanged |-> ex, partial |-> FALSE, dplIssued |-> dpl] ] :
        pr \in ValQuantities, pg \in ValQuantities,
        dr \in ValQuantities, dg \in ValQuantities,
        sal \in ValQuantities,
        ex \in {"true", "false", "null"}, dpl \in BOOLEAN,
        meta \in {Undefined, "known"} }

ValConfigs == [ autoCorrectSaldo : BOOLEAN, autoCorrectExchangeStatus : BOOLEAN ]

Validate ==
    /\ pc = "idle"
    /\ \E extraction \in ValRecords, config \in ValConfigs :
         /\ valIn' = extraction
         /\ valConfig' = config
         /\ valOut' = validateExtraction(extraction, config)
         /\ valOriginal' = ObjectsAfter(extraction, config)["extraction"]
    /\ pc' = "validated"
    /\ UNCHANGED corrVars
    /\ UNCHANGED << v010In, v010Out, funVars >>

NextValid == Validate

SpecValid == InitIdle /\ [][NextValid]_vars

(***************************************************************************)
(* mergeStops over lists of Partial<StopExtraction> records, applied once  *)
(* and then to its own result                                               *)
(***************************************************************************)
MaxRecords == 3

\* date, time and locationAddress of a record
StopMetas ==
    { [date |-> NoDate,        time |-> Undefined, locationAddress |-> Undefined],
      [date |-> NachweisDate,  time |-> "08:00",   locationAddress |-> "Kai 7"],
      [date |-> LadelisteDate, time |-> "09:30",   locationAddress |-> "Werkstr. 2"] }

\* palletsReceived and palletsGiven of a record
StopMovements ==
    { << << [Mv("EUR", 1) EXCEPT !.damaged = 1] >>, << >> >>,
      << << Mv("EUR", 2), Mv("CHEP", 1) >>, << [Mv("EUR", 1) EXCEPT !.damaged = 1] >> >>,
      << << Mv("CHEP", 2) >>, << Mv("CHEP", 1), Mv("CHEP", 1) >> >> }

StopRecords ==
    { StopOf("pickup", n, NoDate, mv[1], mv[2], "false") :
        n \in {"Lager Nord", "lager nord"}, mv \in StopMovements }
    \cup
    { [ StopOf("delivery", "Lager Nord", meta.date, << >>, << >>, ex)
        EXCEPT !.time = meta.time, !.locationAddress = meta.locationAddress ] :
        meta \in StopMetas, ex \in {"true", "false", Undefined} }
    \cup
    { StopOf("delivery", "Hof Sued", LadelisteDate, << Mv("CHEP", 1) >>, << >>, Undefined) }

StopLists == UNION { [1..n -> StopRecords] : n \in 0..MaxRecords }

\* const mergedStops = mergeStops(allStops)
MergeCall ==
    /\ pc = "idle"
    /\ mergedStops' = mergeStops(allStops)
    /\ pc' = "merged"
    /\ UNCHANGED << pagesDone, processedPages, allStops, consignee, consigneeAddress,
                    pageStops, allWarnings, extractedStops, synthFull, synthMinimal,
                    lademittelmahnung, v010In, v010Out, valIn, valConfig, valOut, valOriginal,
                    funVars >>

\* mergeStops handed the list it returned
MergeAgain ==
    /\ pc = "merged"
    /\ remergedStops' = mergeStops(mergedStops)
    /\ pc' = "remerged"
    /\ UNCHANGED corrVars
    /\ UNCHANGED opVars
    /\ UNCHANGED << v010In, v010Out, valIn, valConfig, valOut, valOriginal,
                    labelIn, labelOut, reviewIn, reviewOut >>

InitMerge ==
    /\ pc = "idle"
    /\ allStops \in StopLists
    /\ pagesDone = 0
    /\ processedPages = << >>
    /\ consignee = Undefined
    /\ consigneeAddress = Undefined
    /\ pageStops = << >>
    /\ allWarnings = << >>
    /\ extractedStops = << >>
    /\ synthFull = 0
    /\ synthMinimal = 0
    /\ mergedStops = << >>
    /\ lademittelmahnung = NoOutput
    /\ v010In = NoV010
    /\ v010Out = << >>
    /\ valIn = NoRecord
    /\ valConfig = DEFAULT_CONFIG
    /\ valOut = NoValidation
    /\ valOriginal = NoRecord
    /\ remergedStops = << >>
    /\ labelIn = << >>
    /\ labelOut = NoLabelOut
    /\ reviewIn = NoReviewIn
    /\ reviewOut = NoReviewOut
    /\ retry = NoRetry
    /\ batch = NoBatch
    /\ pool = NoPool

NextMerge == MergeCall \/ MergeAgain

SpecMerge == InitMerge /\ [][NextMerge]_vars

(***************************************************************************)
(* normalizePalletType of lib/extractor-v010.ts and of the two-pass        *)
(* extractor.  A label is the sequence of its characters, so that           *)
(* toLowerCase, trim, === and includes are computed as JavaScript computes  *)
(* them; the character "ue" stands for u-umlaut.                            *)
(***************************************************************************)
MaxFragments == 3

LowerChar(c) ==
    CASE c = "C" -> "c" [] c = "H" -> "h" [] c = "E" -> "e" [] c = "P" -> "p"
      [] OTHER -> c

\* String.prototype.toLowerCase
LowerCase(chars) == [i \in 1..Len(chars) |-> LowerChar(chars[i])]

\* String.prototype.trim
RECURSIVE TrimChars(_)
TrimChars(chars) ==
    IF chars = << >> THEN chars
    ELSE IF Head(chars) = " " THEN TrimChars(Tail(chars))
    ELSE IF chars[Len(chars)] = " " THEN TrimChars(SubSeq(chars, 1, Len(chars) - 1))
    ELSE chars

\* String.prototype.includes
Includes(chars, needle) ==
    \E i \in 0..(Len(chars) - Len(needle)) :
        SubSeq(chars, i + 1, i + Len(needle)) = needle

VALID_PALLET_TYPES ==
    << [name |-> "EURO-Palette", chars |-> << "E", "U", "R", "O", "-", "P", "a", "l", "e", "t", "t", "e" >>],
       [name |-> "EUR", chars |-> << "E", "U", "R" >>],
       [name |-> "EUR-NT", chars |-> << "E", "U", "R", "-", "N", "T" >>],
       [name |-> "Einweg-Palette", chars |-> << "E", "i", "n", "w", "e", "g", "-", "P", "a", "l", "e", "t", "t", "e" >>],
       [name |-> "Einweg", chars |-> << "E", "i", "n", "w", "e", "g" >>],
       [name |-> "Duesseldorfer", chars |-> << "D", "ue", "s", "s", "e", "l", "d", "o", "r", "f", "e", "r" >>],
       [name |-> "CHEP", chars |-> << "C", "H", "E", "P" >>],
       [name |-> "CHEP-HALB", chars |-> << "C", "H", "E", "P", "-", "H", "A", "L", "B" >>],
       [name |-> "CHEP-VIERTEL", chars |-> << "C", "H", "E", "P", "-", "V", "I", "E", "R", "T", "E", "L" >>],
       [name |-> "Gitterbox", chars |-> << "G", "i", "t", "t", "e", "r", "b", "o", "x" >>],
       [name |-> "Plastik", chars |-> << "P", "l", "a", "s", "t", "i", "k" >>],
       [name |-> "H1", chars |-> << "H", "1" >>],
       [name |-> "Rollcontainer", chars |-> << "R", "o", "l", "l", "c", "o", "n", "t", "a", "i", "n", "e", "r" >>],
       [name |-> "Industrie-Palette", chars |-> << "I", "n", "d", "u", "s", "t", "r", "i", "e", "-", "P", "a", "l", "e", "t", "t", "e" >>],
       [name |-> "Industrie", chars |-> << "I", "n", "d", "u", "s", "t", "r", "i", "e" >>],
       [name |-> "unknown", chars |-> << "u", "n", "k", "n", "o", "w", "n" >>] >>

\* lib/extractor-v010.ts
normalizePalletType(type) ==
    LET normalized == TrimChars(LowerCase(type))
    IN  IF \/ normalized = << "e", "u", "r", "-", "n", "t" >>
           \/ Includes(normalized, << "n", "i", "c", "h", "t", " ", "t", "a", "u", "s", "c", "h" >>)
        THEN "EUR-NT"
        ELSE IF \/ Includes(normalized, << "e", "u", "r" >>)
           \/ Includes(normalized, << "e", "u", "r", "o" >>)
           \/ normalized = << "e", "p" >>
        THEN "EUR"
        ELSE IF Includes(normalized, << "e", "i", "n", "w", "e", "g" >>)
        THEN "Einweg"
        ELSE IF \/ Includes(normalized, << "d", "ue", "s", "s" >>)
           \/ Includes(normalized, << "d", "u", "s", "s" >>)
           \/ normalized = << "d", "d" >>
           \/ Includes(normalized, << "h", "a", "l", "b", "p", "a", "l" >>)
        THEN "Duesseldorfer"
        ELSE IF \/ Includes(normalized, << "c", "h", "e", "p", "-", "h", "a", "l", "b" >>)
           \/ Includes(normalized, << "c", "h", "e", "p", " ", "h", "a", "l", "b" >>)
        THEN "CHEP-HALB"
        ELSE IF \/ Includes(normalized, << "c", "h", "e", "p", "-", "v", "i", "e", "r", "t", "e", "l" >>)
           \/ Includes(normalized, << "c", "h", "e", "p", " ", "v", "i", "e", "r", "t", "e", "l" >>)
        THEN "CHEP-VIERTEL"
        ELSE IF Includes(normalized, << "c", "h", "e", "p" >>)
        THEN "CHEP"
        ELSE IF \/ Includes(normalized, << "g", "i", "t", "t", "e", "r" >>)
           \/ normalized = << "g", "b" >>
        THEN "Gitterbox"
        ELSE IF \/ Includes(normalized, << "p", "l", "a", "s", "t", "i", "k" >>)
           \/ Includes(normalized, << "k", "u", "n", "s", "t", "s", "t", "o", "f", "f" >>)
        THEN "Plastik"
        ELSE IF normalized = << "h", "1" >>
        THEN "H1"
        ELSE IF Includes(normalized, << "r", "o", "l", "l" >>)
        THEN "Rollcontainer"
        ELSE IF Includes(normalized, << "i", "n", "d", "u", "s", "t", "r", "i", "e" >>)
        THEN "Industrie"
        ELSE "unknown"

\* the two-pass extractor's normalizePalletType
twoPassNormalizePalletType(type) ==
    LET normalized == TrimChars(LowerCase(type))
    IN  IF \/ normalized = << "e", "u", "r", "o", "-", "p", "a", "l", "e", "t", "t", "e" >>
           \/ normalized = << "e", "u", "r", "o", "p", "a", "l", "e", "t", "t", "e" >>
        THEN "EURO-Palette"
        ELSE IF \/ normalized = << "e", "u", "r", "-", "n", "t" >>
           \/ Includes(normalized, << "n", "i", "c", "h", "t", " ", "t", "a", "u", "s", "c", "h" >>)
        THEN "EUR-NT"
        ELSE IF \/ Includes(normalized, << "e", "u", "r" >>)
           \/ Includes(normalized, << "e", "u", "r", "o" >>)
           \/ normalized = << "e", "p" >>
           \/ normalized = << "3", "5", "6" >>
        THEN "EURO-Palette"
        ELSE IF Includes(normalized, << "e", "i", "n", "w", "e", "g" >>)
        THEN "Einweg-Palette"
        ELSE IF \/ Includes(normalized, << "d", "ue", "s", "s" >>)
           \/ Includes(normalized, << "d", "u", "s", "s" >>)
           \/ normalized = << "d", "d" >>
           \/ Includes(normalized, << "h", "a", "l", "b", "p", "a", "l" >>)
        THEN "Duesseldorfer"
        ELSE IF \/ Includes(normalized, << "c", "h", "e", "p", "-", "h", "a", "l", "b" >>)
           \/ Includes(normalized, << "c", "h", "e", "p", " ", "h", "a", "l", "b" >>)
        THEN "CHEP-HALB"
        ELSE IF \/ Includes(normalized, << "c", "h", "e", "p", "-", "v", "i", "e", "r", "t", "e", "l" >>)
           \/ Includes(normalized, << "c", "h", "e", "p", " ", "v", "i", "e", "r", "t", "e", "l" >>)
        THEN "CHEP-VIERTEL"
        ELSE IF Includes(normalized, << "c", "h", "e", "p" >>)
        THEN "CHEP"
        ELSE IF \/ Includes(normalized, << "g", "i", "t", "t", "e", "r" >>)
           \/ normalized = << "g", "b" >>
        THEN "Gitterbox"
        ELSE IF \/ Includes(normalized, << "p", "l", "a", "s", "t", "i", "k" >>)
           \/ Includes(normalized, << "k", "u", "n", "s", "t", "s", "t", "o", "f", "f" >>)
        THEN "Plastik"
        ELSE IF normalized = << "h", "1" >>
        THEN "H1"
        ELSE IF Includes(normalized, << "r", "o", "l", "l" >>)
        THEN "Rollcontainer"
        ELSE IF Includes(normalized, << "i", "n", "d", "u", "s", "t", "r", "i", "e" >>)
        THEN "Industrie-Palette"
        ELSE IF \E k \in 1..Len(VALID_PALLET_TYPES) : VALID_PALLET_TYPES[k].chars = type
        THEN (CHOOSE v \in { VALID_PALLET_TYPES[k] : k \in 1..Len(VALID_PALLET_TYPES) } :
                  v.chars = type).name
        ELSE "unknown"

\* the pieces labels are made of
Fragments ==
    { << "c", "h", "e", "p" >>,
      << "C", "H", "E", "P" >>,
      << "-" >>,
      << " " >>,
      << "h", "a", "l", "b" >>,
      << "h", "a", "l", "b", "p", "a", "l" >>,
      << "v", "i", "e", "r", "t", "e", "l" >>,
      << "e", "u", "r" >>,
      << "n", "t" >>,
      << "n", "i", "c", "h", "t", " ", "t", "a", "u", "s", "c", "h" >>,
      << "x" >> }

RECURSIVE Concat(_)
Concat(pieces) ==
    IF pieces = << >> THEN << >> ELSE Head(pieces) \o Concat(Tail(pieces))

Labels == { Concat(pieces) : pieces \in UNION { [1..n -> Fragments] : n \in 0..MaxFragments } }

\* palletType: normalizePalletType(raw.palletType)
Normalize ==
    /\ pc = "idle"
    /\ \E type \in Labels :
         /\ labelIn' = type
         /\ labelOut' = [ v010    |-> normalizePalletType(type),
                          twoPass |-> twoPassNormalizePalletType(type) ]
    /\ pc' = "normalized"
    /\ UNCHANGED corrVars
    /\ UNCHANGED opVars
    /\ UNCHANGED << v010In, v010Out, valIn, valConfig, valOut, valOriginal,
                    remergedStops, reviewIn, reviewOut >>

NextNorm == Normalize

SpecNorm == InitIdle /\ [][NextNorm]_vars

(***************************************************************************)
(* lib/validation.ts: needsReview.  Confidences and the threshold are in    *)
(* hundredths.                                                              *)
(***************************************************************************)
MaxWarnings == 3

\* needsReview without the flagLowConfidence test
needsReviewUnflagged(extraction, validation, config) ==
    LET lowConfidence ==
            IF 
               extraction.confidence < config.lowConfidenceThreshold
            THEN << "Low extraction confidence" >> ELSE << >>
        hasErrors ==
            IF Len(validation.errors) > 0
            THEN << "Validation errors detected" >> ELSE << >>
        manyWarnings ==
            IF Len(validation.warnings) > 2
            THEN << "Multiple warnings" >> ELSE << >>
        noMovements ==
            IF extraction.pickup.uebernommen = 0 /\ extraction.delivery.ueberlassen = 0
            THEN << "No pallet movements extracted" >> ELSE << >>
        reasons == lowConfidence \o hasErrors \o manyWarnings \o noMovements
    IN  [ needsReview |-> Len(reasons) > 0, reasons |-> reasons ]

needsReview(extraction, validation, config) ==
    LET lowConfidence ==
            IF config.flagLowConfidence /\
               extraction.confidence < config.lowConfidenceThreshold
            THEN << "Low extraction confidence" >> ELSE << >>
        hasErrors ==
            IF Len(validation.errors) > 0
            THEN << "Validation errors detected" >> ELSE << >>
        manyWarnings ==
            IF Len(validation.warnings) > 2
            THEN << "Multiple warnings" >> ELSE << >>
        noMovements ==
            IF extraction.pickup.uebernommen = 0 /\ extraction.delivery.ueberlassen = 0
            THEN << "No pallet movements extracted" >> ELSE << >>
        reasons == lowConfidence \o hasErrors \o manyWarnings \o noMovements
    IN  [ needsReview |-> Len(reasons) > 0, reasons |-> reasons ]

\* confidence as normalizeExtraction clamps it, and the two quantities read
ReviewExtractions ==
    [ confidence : {50, 70, 90},
      pickup     : [uebernommen : {0, 1}],
      delivery   : [ueberlassen : {0, 1}] ]

ReviewValidations ==
    [ errors   : { << >>, << SaldoMismatch >> },
      warnings : { [i \in 1..n |-> "warning"] : n \in 0..MaxWarnings } ]

\* TwoPassConfig.validation; DEFAULT_CONFIG has flagLowConfidence = true and
\* lowConfidenceThreshold = 0.7
ReviewConfigs ==
    [ flagLowConfidence : BOOLEAN, lowConfidenceThreshold : {70, 80} ]

\* transformToLademittelmahnung: needsReview(extraction, validation, config)
Review ==
    /\ pc = "idle"
    /\ \E extraction \in ReviewExtractions, validation \in ReviewValidations,
          config \in ReviewConfigs :
         /\ reviewIn' = [ extraction |-> extraction, validation |-> validation,
                          config |-> config ]
         /\ reviewOut' = needsReview(extraction, validation, config)
    /\ pc' = "reviewed"
    /\ UNCHANGED corrVars
    /\ UNCHANGED opVars
    /\ UNCHANGED << v010In, v010Out, valIn, valConfig, valOut, valOriginal,
                    remergedStops, labelIn, labelOut >>

NextReview == Review

SpecReview == InitIdle /\ [][NextReview]_vars

(***************************************************************************)
(* lib/ai-client.ts: withRetry, and the two ways its callers use it.        *)
(* On the path "page" (classifyPage, extractLieferschein, ...) the function *)
(* retried calls the oracle and parses the response; on the path "group"    *)
(* (extractDocumentGroup, extractPalletData, classifyPages) it only calls   *)
(* the oracle and the caller parses what withRetry returned.                *)
(***************************************************************************)
MaxRetries == 3

\* what one oracle call can produce: a rejection, text that is not JSON, JSON
OracleResponses == {"rejected", "unparsable", "json"}

RetryPaths == {"page", "group"}

\* whether fn resolves on this response
FnResolves(path, response) ==
    IF path = "page" THEN response = "json" ELSE response # "rejected"

\* a delay that does not grow
RetryDelayConstant(initialDelayMs, attempt) == initialDelayMs

\* const delay = initialDelayMs * 2 ** attempt
RetryDelay(initialDelayMs, attempt) == initialDelayMs * 2 ^ attempt

\* a caller enters withRetry
RetryStart ==
    /\ pc = "idle"
    /\ \E path \in RetryPaths, maxRetries \in 1..MaxRetries, initialDelayMs \in {250, 1000} :
         retry' = [NoRetry EXCEPT !.path = path, !.maxRetries = maxRetries,
                                  !.initialDelayMs = initialDelayMs, !.at = "call"]
    /\ pc' = "retrying"
    /\ UNCHANGED << corrVars, pureVars, batch, pool >>

\* one iteration of the loop up to the end of fn: return, sleep, or leave the
\* loop and throw lastError
RetryAttempt ==
    /\ pc = "retrying"
    /\ retry.at = "call"
    /\ retry.attempt < retry.maxRetries
    /\ \E response \in OracleResponses :
         LET called == [retry EXCEPT !.responses = Append(@, response)]
         IN  retry' =
               IF FnResolves(retry.path, response)
               THEN [called EXCEPT !.at = "returned"]
               ELSE IF retry.attempt < retry.maxRetries - 1
               THEN [called EXCEPT !.lastError = retry.attempt + 1, !.at = "sleep"]
               ELSE [called EXCEPT !.lastError = retry.attempt + 1,
                                   !.attempt = retry.attempt + 1, !.at = "thrown"]
    /\ UNCHANGED << pc, corrVars, pureVars, batch, pool >>

\* the timer of the catch block fires and the loop goes round
RetrySleep ==
    /\ pc = "retrying"
    /\ retry.at = "sleep"
    /\ retry' = [retry EXCEPT
                    !.delays = Append(@, RetryDelay(retry.initialDelayMs, retry.attempt)),
                    !.attempt = retry.attempt + 1,
                    !.at = "call"]
    /\ UNCHANGED << pc, corrVars, pureVars, batch, pool >>

\* extractDocumentGroup, extractPalletData, classifyPages: parseJSONResponse
\* on what withRetry returned
ParseAfterRetry ==
    /\ pc = "retrying"
    /\ retry.path = "group"
    /\ retry.at = "returned"
    /\ retry' = [retry EXCEPT !.at =
                    IF retry.responses[Len(retry.responses)] = "json"
                    THEN "parsed" ELSE "parseFailed"]
    /\ UNCHANGED << pc, corrVars, pureVars, batch, pool >>

NextRetry == RetryStart \/ RetryAttempt \/ RetrySleep \/ ParseAfterRetry

SpecRetry == InitIdle /\ [][NextRetry]_vars

(***************************************************************************)
(* batch.ts: main looping over the document groups (files), with            *)
(* processGroup / processSingleFile turning every failure into an entry.    *)
(***************************************************************************)
MaxGroups == 3

\* how the try block of processGroup / processSingleFile can end: at its
\* return, or at a throw of the PDF step, the extraction step or a save
GroupOutcomes == {"ok", "pdf failed", "extraction failed", "save failed"}

\* main has found its groups (it exits when there is none)
BatchStart ==
    /\ pc = "idle"
    /\ \E n \in 1..MaxGroups : batch' = [NoBatch EXCEPT !.groups = n, !.at = "loop"]
    /\ pc' = "batch"
    /\ UNCHANGED << corrVars, pureVars, retry, pool >>

\* an iteration that loses the entry of a failed group
ProcessGroupLosingFailures ==
    /\ pc = "batch"
    /\ batch.at = "loop"
    /\ batch.next <= batch.groups
    /\ \E outcome \in GroupOutcomes :
         batch' = [batch EXCEPT
                     !.results = IF outcome = "ok"
                                 THEN Append(@, [group |-> batch.next, success |-> TRUE,
                                                 error |-> Undefined])
                                 ELSE @,
                     !.next = batch.next + 1]
    /\ UNCHANGED << pc, corrVars, pureVars, retry, pool >>

\* one iteration: result = await processGroup(...); results.push(result)
ProcessGroup ==
    /\ pc = "batch"
    /\ batch.at = "loop"
    /\ batch.next <= batch.groups
    /\ \E outcome \in GroupOutcomes :
         batch' = [batch EXCEPT
                     !.results = Append(@, [group   |-> batch.next,
                                            success |-> outcome = "ok",
                                            error   |-> IF outcome = "ok" THEN Undefined
                                                        ELSE outcome]),
                     !.next = batch.next + 1]
    /\ UNCHANGED << pc, corrVars, pureVars, retry, pool >>

\* the summary after the loop
Summarize ==
    /\ pc = "batch"
    /\ batch.at = "loop"
    /\ batch.next > batch.groups
    /\ batch' = [batch EXCEPT
                    !.successCount =
                        Cardinality({k \in 1..Len(batch.results) : batch.results[k].success}),
                    !.failureCount =
                        Cardinality({k \in 1..Len(batch.results) : ~ batch.results[k].success}),
                    !.at = "summarized"]
    /\ UNCHANGED << pc, corrVars, pureVars, retry, pool >>

NextBatch == BatchStart \/ ProcessGroup \/ Summarize

SpecBatch == InitIdle /\ [][NextBatch]_vars

(***************************************************************************)
(* lib/extractor.ts: extractAllPages, and lib/classifier.ts:                *)
(* classifyAllPages, which has the same loop.  Page p of the input has      *)
(* pageNumber p.  A page is "calling" while its oracle call is in flight,   *)
(* "waiting" while withRetry sleeps, and "ok" or "failed" once the handler  *)
(* of chunk.map has returned.                                               *)
(***************************************************************************)
MaxPoolPages == 5

concurrencyLimit == 3

\* pages.slice(i, i + concurrencyLimit)
ChunkPages(p) ==
    { q \in 1..p.pages : q >= p.chunkStart /\ q < p.chunkStart + concurrencyLimit }

\* a Promise.all that resolves with the first page that settles
ChunkSettledOnFirst(p) ==
    \E q \in ChunkPages(p) : p.status[q] \in {"ok", "failed"}

\* await Promise.all(chunk.map(...)): every handler has returned
ChunkSettled(p) ==
    \A q \in ChunkPages(p) : p.status[q] \in {"ok", "failed"}

\* what the handler of chunk.map returns for page q
PageResult(p, q) ==
    IF p.status[q] = "ok"
    THEN [pageNumber |-> q, success |-> TRUE, confidence |-> 50]
    ELSE [pageNumber |-> q, success |-> FALSE, confidence |-> 0]

\* the results of a chunk in the order its pages settled
ChunkResultsAsSettled(p) ==
    [k \in 1..Len(p.settled) |-> PageResult(p, p.settled[k])]

\* chunkResults: Promise.all keeps the order of the chunk
ChunkResults(p) ==
    [k \in 1..Cardinality(ChunkPages(p)) |-> PageResult(p, p.chunkStart + k - 1)]

\* results.set(pageNumber, result) for each entry in turn
RECURSIVE MapSetAll(_, _)
MapSetAll(results, entries) ==
    IF entries = << >> THEN results
    ELSE LET e == Head(entries)
             same == {k \in 1..Len(results) : results[k].pageNumber = e.pageNumber}
         IN  MapSetAll(IF same = {} THEN Append(results, e)
                       ELSE [k \in 1..Len(results) |->
                               IF k \in same THEN e ELSE results[k]],
                       Tail(entries))

\* the pages of the chunk that starts at page first, with their calls issued
StartChunk(p, first) ==
    [p EXCEPT !.chunkStart = first,
              !.settled = << >>,
              !.status = [q \in 1..p.pages |->
                            IF q >= first /\ q < first + concurrencyLimit
                            THEN "calling" ELSE p.status[q]],
              !.attempt = [q \in 1..p.pages |->
                            IF q >= first /\ q < first + concurrencyLimit
                            THEN 1 ELSE p.attempt[q]]]

\* the call up to the first await Promise.all
PoolStart ==
    /\ pc = "idle"
    /\ \E n \in 0..MaxPoolPages :
         pool' = IF n = 0 THEN [NoPool EXCEPT !.at = "returned"]
                 ELSE StartChunk([NoPool EXCEPT !.at = "running", !.pages = n,
                                                !.status = [q \in 1..n |-> "pending"],
                                                !.attempt = [q \in 1..n |-> 0]], 1)
    /\ pc' = "pool"
    /\ UNCHANGED << corrVars, pureVars, retry, batch >>

\* the oracle call of one page ends: its handler returns, or withRetry sleeps
OracleCallEnds ==
    /\ pc = "pool"
    /\ pool.at = "running"
    /\ \E q \in 1..pool.pages, ok \in BOOLEAN :
         /\ pool.status[q] = "calling"
         /\ pool' =
              IF ok
              THEN [pool EXCEPT !.status[q] = "ok", !.settled = Append(@, q)]
              ELSE IF pool.attempt[q] < MaxRetries
              THEN [pool EXCEPT !.status[q] = "waiting"]
              ELSE [pool EXCEPT !.status[q] = "failed", !.settled = Append(@, q)]
    /\ UNCHANGED << pc, corrVars, pureVars, retry, batch >>

\* the timer of withRetry fires and the page's next oracle call is issued
RetryTimerFires ==
    /\ pc = "pool"
    /\ pool.at = "running"
    /\ \E q \in 1..pool.pages :
         /\ pool.status[q] = "waiting"
         /\ pool' = [pool EXCEPT !.status[q] = "calling", !.attempt[q] = @ + 1]
    /\ UNCHANGED << pc, corrVars, pureVars, retry, batch >>

\* Promise.all resolves: the results are stored and the next chunk starts,
\* or the map is returned
ChunkDone ==
    /\ pc = "pool"
    /\ pool.at = "running"
    /\ ChunkSettled(pool)
    /\ LET stored == [pool EXCEPT !.results = MapSetAll(@, ChunkResults(pool))]
           next   == pool.chunkStart + concurrencyLimit
       IN  pool' = IF next > pool.pages
                   THEN [stored EXCEPT !.at = "returned"]
                   ELSE StartChunk(stored, next)
    /\ UNCHANGED << pc, corrVars, pureVars, retry, batch >>

NextPool == PoolStart \/ OracleCallEnds \/ RetryTimerFires \/ ChunkDone

SpecPool == InitIdle /\ [][NextPool]_vars

(***************************************************************************)
(* Properties                                                              *)
(***************************************************************************)
Returned == pc \in {"done", "formatted"}

Rows == lademittelmahnung.palletMovements

\* the roles and the consignee the gap-filling test reads
GapFillFires ==
    /\ HasRole(extractedStops, "pickup")
    /\ ~ HasRole(extractedStops, "delivery")
    /\ consignee # Undefined

\* a stop was appended to allStops after the page loop
Synthesized == Len(allStops) > Len(extractedStops)

SynthesizedStop == allStops[Len(allStops)]

\* C1: every row toLademittelmahnungFormat emits has
\* saldo = pickupGiven - pickupReceived, whatever its delivery-side figures are
C1_SaldoIsPickupBalance ==
    pc = "formatted" =>
        \A k \in 1..Len(Rows) :
            Rows[k].saldo = Rows[k].pickupGiven - Rows[k].pickupReceived

\* C1 witness: a row with a pickup quantity and an unbalanced delivery side
C1_Witness ==
    /\ pc = "formatted"
    /\ \E k \in 1..Len(Rows) :
         /\ Rows[k].pickupReceived > 0
         /\ Rows[k].deliveryGiven > 0
         /\ Rows[k].deliveryGiven # Rows[k].deliveryReceived

\* C2: the saldo reported for a pallet type equals the sum of palletsGiven of
\* that type over all pickup stops of the ledger minus the sum of their
\* palletsReceived, also with two or more pickup stops
C2_SaldoSumsAllPickupStops ==
    pc = "formatted" =>
        \A k \in 1..Len(Rows) :
            LET pickups == PickupStops(mergedStops)
                given    == [i \in 1..Len(pickups) |->
                               Mv(Rows[k].palletType,
                                  sumPallets(pickups[i].palletsGiven, Rows[k].palletType))]
                received == [i \in 1..Len(pickups) |->
                               Mv(Rows[k].palletType,
                                  sumPallets(pickups[i].palletsReceived, Rows[k].palletType))]
            IN  Rows[k].saldo = SumQuantity(given) - SumQuantity(received)

\* C3: every row v010ToLademittelmahnungFormat emits has
\* saldo = pickupGiven - pickupReceived, for pickup, delivery and handoff alike
C3_V010SaldoIsPickupBalance ==
    pc = "converted" =>
        \A k \in 1..Len(v010Out) :
            v010Out[k].saldo = v010Out[k].pickupGiven - v010Out[k].pickupReceived

\* C4: with autoCorrectSaldo the returned saldo is pickup.ueberlassen -
\* pickup.uebernommen, and the saldo-mismatch error is emitted (with
\* corrected = true) exactly when the reported saldo differs from that value
C4_AutoCorrectedSaldoIsPickupBalance ==
    (pc = "validated" /\ valConfig.autoCorrectSaldo) =>
        LET pickupBalance == valIn.pickup.ueberlassen - valIn.pickup.uebernommen
            reported == \E k \in 1..Len(valOut.errors) : valOut.errors[k] = SaldoMismatch
        IN  /\ valOut.result.saldo = pickupBalance
            /\ reported <=> (valIn.saldo # pickupBalance)
            /\ reported => valOut.corrected

\* C5: a record with a negative quantity gets the negative-quantity error and
\* isValid = false under every configuration, and its four quantities come
\* back unchanged
C5_NegativeQuantityRejected ==
    (pc = "validated"
        /\ (\/ valIn.pickup.uebernommen < 0 \/ valIn.pickup.ueberlassen < 0
            \/ valIn.delivery.uebernommen < 0 \/ valIn.delivery.ueberlassen < 0)) =>
        /\ \E k \in 1..Len(valOut.errors) : valOut.errors[k] = NegativeQuantities
        /\ ~ valOut.isValid
        /\ valOut.result.pickup.uebernommen = valIn.pickup.uebernommen
        /\ valOut.result.pickup.ueberlassen = valIn.pickup.ueberlassen
        /\ valOut.result.delivery.uebernommen = valIn.delivery.uebernommen
        /\ valOut.result.delivery.ueberlassen = valIn.delivery.ueberlassen

\* C5 witness: a negative delivery quantity in a record the validator
\* auto-corrected with both flags on
C5_Witness ==
    /\ pc = "validated"
    /\ valIn.delivery.ueberlassen < 0
    /\ valIn.pickup.uebernommen >= 0 /\ valIn.pickup.ueberlassen >= 0
    /\ valConfig.autoCorrectSaldo /\ valConfig.autoCorrectExchangeStatus
    /\ valOut.corrected

\* C6 as stated: a delivery stop is synthesized only when a pickup stop
\* exists, no delivery stop exists and the consignee is known
C6_SynthesisOnlyOnGap ==
    (Returned /\ Synthesized) => GapFillFires

\* C6 amended: the full-exchange stop is synthesized only when a pickup stop
\* exists, no delivery stop exists and the consignee is known; the
\* delivery-only stop only when no stop was extracted and the consignee is
\* known; no stop is synthesized while an extracted delivery stop exists
C6_SynthesisGuards ==
    Returned =>
        /\ (Synthesized /\ SynthesizedStop.exchanged = "true") => GapFillFires
        /\ (Synthesized /\ SynthesizedStop.exchanged = "false") =>
               (Len(extractedStops) = 0 /\ consignee # Undefined)
        /\ HasRole(extractedStops, "delivery") => ~ Synthesized

\* C6 witness: the full-exchange stop was synthesized next to two pickup stops
C6_Witness ==
    /\ Returned
    /\ Synthesized
    /\ SynthesizedStop.exchanged = "true"
    /\ Len(extractedStops) = 2

\* C7: when gap filling fires the ledger holds exactly one delivery Stop,
\* named after the consignee, whose palletsReceived and palletsGiven equal per
\* pallet type the total palletsReceived of the pickup stops, with
\* exchanged = true, and the assumed-exchange warning is recorded
C7_GapFillStop ==
    (Returned /\ GapFillFires) =>
        LET deliveries == SelectSeq(mergedStops, LAMBDA st : st.locationType = "delivery")
            pickedUp   == FlatMapReceived(PickupStops(extractedStops))
        IN  /\ Len(deliveries) = 1
            /\ deliveries[1].locationName = consignee
            /\ \A t \in PalletTypes :
                 /\ sumPallets(deliveries[1].palletsReceived, t) = sumPallets(pickedUp, t)
                 /\ sumPallets(deliveries[1].palletsGiven, t) = sumPallets(pickedUp, t)
            /\ deliveries[1].exchanged = "true"
            /\ \E k \in 1..Len(allWarnings) : allWarnings[k] = AssumedExchangeWarning

\* pages with no exchange receipt, no goods receipt, no loading list
\* that names a location, a consignee, and pallet counts from a delivery
\* note's palletInfo or a loading list's totalPallets
NoReceiptAndNoLoadingLocation ==
    \A i \in 1..Len(processedPages) :
        /\ processedPages[i].documentType \notin {"palettennachweis", "wareneingangsbeleg"}
        /\ processedPages[i].documentType = "ladeliste" =>
               /\ processedPages[i].rawExtraction.beladeort.name = Undefined
               /\ processedPages[i].rawExtraction.beladeort.address = Undefined
               /\ Len(processedPages[i].rawExtraction.stops) = 0

KnownPalletCounts ==
    { processedPages[i].rawExtraction.totalPallets : i \in
        { j \in 1..Len(processedPages) : processedPages[j].documentType = "ladeliste" } }
    \cup
    { processedPages[i].rawExtraction.palletInfo : i \in
        { j \in 1..Len(processedPages) : processedPages[j].documentType = "lieferschein" } }

\* C8: with no receipt stop and no loading location but a consignee and known
\* pallet counts, the ledger is one synthesized delivery-only stop named after
\* the consignee, exchanged = false, palletsReceived empty, palletsGiven the
\* known counts, and a warning is appended
C8_MinimalDeliveryStop ==
    (Returned /\ NoReceiptAndNoLoadingLocation /\ consignee # Undefined
        /\ \E counts \in KnownPalletCounts : Len(counts) > 0) =>
        /\ Len(mergedStops) = 1
        /\ mergedStops[1].locationType = "delivery"
        /\ mergedStops[1].locationName = consignee
        /\ mergedStops[1].exchanged = "false"
        /\ mergedStops[1].palletsReceived = << >>
        /\ mergedStops[1].palletsGiven \in KnownPalletCounts
        /\ Len(mergedStops[1].palletsGiven) > 0
        /\ \E k \in 1..Len(allWarnings) : allWarnings[k] = MinimalStopWarning

\* C9: at most one stop is synthesized per run: the full-exchange synthesis
\* and the delivery-only synthesis never both happen, and neither happens twice
C9_AtMostOneSynthesis ==
    /\ synthFull + synthMinimal <= 1
    /\ Returned => Len(allStops) <= Len(extractedStops) + 1

\* C9 witness: the full-exchange stop was synthesized in a run whose pages
\* also hold the pallet counts the delivery-only branch would use
C9_Witness ==
    /\ Returned
    /\ synthFull = 1
    /\ Len(PalletsToUse(processedPages)) > 0

\* the documented stop identity: role and lowercased, trimmed name, with one
\* "unknown" bucket per role
Identity(stop) ==
    << stop.locationType,
       IF stop.locationName = Undefined THEN "unknown"
       ELSE toLowerCase(trim(stop.locationName)) >>

\* the Stop of the ledger a record was folded into
StopOfRecord(stop) == IndexOfKey(mergedStops, MergeKey(stop), 1)

\* C10: two records share a Stop iff they have the same role and the same
\* lowercased, trimmed name; the ledger never holds two Stops with the same
\* (role, normalized name) and never folds a pickup and a delivery record
\* into one Stop
C10_MergeIdentity ==
    Returned =>
        /\ \A i, j \in 1..Len(allStops) :
               (StopOfRecord(allStops[i]) = StopOfRecord(allStops[j]))
                   <=> (Identity(allStops[i]) = Identity(allStops[j]))
        /\ \A i, j \in 1..Len(mergedStops) :
               Identity(mergedStops[i]) = Identity(mergedStops[j]) => i = j

\* quantity (or damaged count) of one pallet type in a movement list
RECURSIVE TypeTotal(_, _, _)
TypeTotal(movements, palletType, counted) ==
    IF movements = << >> THEN 0
    ELSE (IF Head(movements).palletType # palletType THEN 0
          ELSE IF counted = "damaged" THEN Head(movements).damaged
          ELSE Head(movements).quantity)
         + TypeTotal(Tail(movements), palletType, counted)

\* the same total over the records of a list that were folded into Stop k
RECURSIVE RecordsTotal(_, _, _, _, _)
RecordsTotal(stops, k, side, palletType, counted) ==
    IF stops = << >> THEN 0
    ELSE (IF StopOfRecord(Head(stops)) # k THEN 0
          ELSE TypeTotal(IF side = "received" THEN Head(stops).palletsReceived
                         ELSE Head(stops).palletsGiven, palletType, counted))
         + RecordsTotal(Tail(stops), k, side, palletType, counted)

Merged == pc \in {"merged", "remerged"}

\* C11: every Stop's received and given quantity, and damaged count, of each
\* pallet type is the sum over the records folded into it, and the totals of
\* a Stop are the same whatever the order in which the records are processed
C11_MergedTotalsAreSums ==
    Merged =>
        /\ \A k \in 1..Len(mergedStops), t \in PalletTypes, c \in {"quantity", "damaged"} :
               /\ TypeTotal(mergedStops[k].palletsReceived, t, c)
                      = RecordsTotal(allStops, k, "received", t, c)
               /\ TypeTotal(mergedStops[k].palletsGiven, t, c)
                      = RecordsTotal(allStops, k, "given", t, c)
        /\ \A perm \in Permutations(1..Len(allStops)) :
               LET reordered == mergeStops([i \in 1..Len(allStops) |-> allStops[perm[i]]])
               IN  /\ Len(reordered) = Len(mergedStops)
                   /\ \A j \in 1..Len(reordered), t \in PalletTypes,
                         c \in {"quantity", "damaged"} :
                          LET k == IndexOfKey(mergedStops, MergeKey(reordered[j]), 1)
                          IN  /\ k # 0
                              /\ TypeTotal(reordered[j].palletsReceived, t, c)
                                     = TypeTotal(mergedStops[k].palletsReceived, t, c)
                              /\ TypeTotal(reordered[j].palletsGiven, t, c)
                                     = TypeTotal(mergedStops[k].palletsGiven, t, c)

\* C11 witness: three records were folded into one Stop whose EUR received
\* quantity and damaged count both come from more than one record
C11_Witness ==
    /\ Merged
    /\ Len(allStops) = 3
    /\ Len(mergedStops) = 1
    /\ allStops[1] # allStops[2]
    /\ TypeTotal(mergedStops[1].palletsReceived, "EUR", "quantity") = 4
    /\ TypeTotal(mergedStops[1].palletsReceived, "EUR", "damaged") = 2
    /\ TypeTotal(mergedStops[1].palletsGiven, "EUR", "damaged") = 1

\* C12: mergeStops applied to the list mergeStops returned gives that list
\* again: the same Stops with the same movements, nothing counted twice
C12_MergeIdempotent ==
    pc = "remerged" => remergedStops = mergedStops

\* C12 witness: a list of three records that was folded into two Stops, one
\* of them carrying summed quantities, has been merged a second time
C12_Witness ==
    /\ pc = "remerged"
    /\ Len(allStops) = 3
    /\ Len(mergedStops) = 2
    /\ \E k \in 1..2 :
           TypeTotal(mergedStops[k].palletsReceived, "EUR", "quantity") = 3

\* the first value of a field that is present, in list order, among the
\* records folded into Stop k; the absent value if none has one
RECURSIVE FirstPresent(_, _, _, _)
FirstPresent(stops, k, field, absent) ==
    IF stops = << >> THEN absent
    ELSE IF StopOfRecord(Head(stops)) = k /\ Head(stops)[field] # absent
    THEN Head(stops)[field]
    ELSE FirstPresent(Tail(stops), k, field, absent)

\* C13: date, time and locationAddress of a Stop are each the first present
\* value among its records in processing order; a later record never
\* overwrites an earlier record's value
C13_FirstPresentWins ==
    Merged =>
        \A k \in 1..Len(mergedStops) :
            /\ mergedStops[k].date = FirstPresent(allStops, k, "date", NoDate)
            /\ mergedStops[k].time = FirstPresent(allStops, k, "time", Undefined)
            /\ mergedStops[k].locationAddress
                   = FirstPresent(allStops, k, "locationAddress", Undefined)

\* C13 witness: the first record of a Stop has no date, time or address, the
\* second and the third supply different ones, and the Stop has the second's
C13_Witness ==
    /\ Merged
    /\ Len(allStops) = 3
    /\ Len(mergedStops) = 1
    /\ allStops[1].date = NoDate /\ allStops[1].time = Undefined
    /\ allStops[1].locationAddress = Undefined
    /\ allStops[2].date = LadelisteDate /\ allStops[3].date = NachweisDate
    /\ mergedStops[1].date = LadelisteDate
    /\ mergedStops[1].time = "09:30"
    /\ mergedStops[1].locationAddress = "Werkstr. 2"

\* the exchange status the records folded into Stop k assert together: true
\* if one asserts true, false if all assert false, otherwise unknown
AssertedExchange(stops, k) ==
    LET records == SelectSeq(stops, LAMBDA st : StopOfRecord(st) = k)
    IN  IF \E i \in 1..Len(records) : records[i].exchanged = "true" THEN "true"
        ELSE IF \A i \in 1..Len(records) : records[i].exchanged = "false" THEN "false"
        ELSE Undefined

\* C14: a Stop's exchanged is true when a record of it asserts true, false
\* only when every record asserts false, and unknown otherwise
C14_ExchangedTriState ==
    Returned =>
        \A k \in 1..Len(mergedStops) :
            mergedStops[k].exchanged = AssertedExchange(allStops, k)

\* the page whose stops pageStops holds
LastPage == processedPages[Len(processedPages)]

LastPageIs(documentType) ==
    /\ Len(pageStops) > 0
    /\ LastPage.documentType = documentType

\* totals of an exchange receipt in the carrier's words: what the location
\* gave the carrier received, what the location received the carrier gave
CarrierReceivedTotal(data) ==
    TypeTotal(data.palletsGiven, "EUR", "quantity")
        + TypeTotal(data.palletsGiven, "CHEP", "quantity")

CarrierGaveTotal(data) ==
    TypeTotal(data.palletsReceived, "EUR", "quantity")
        + TypeTotal(data.palletsReceived, "CHEP", "quantity")

\* C15: the record of an exchange receipt is a pickup when the carrier only
\* received, a delivery when the carrier only gave, and with both totals
\* positive the side with the larger total, equal totals giving delivery
C15_ExchangeReceiptRole ==
    LastPageIs("palettennachweis") =>
        LET received == CarrierReceivedTotal(LastPage.rawExtraction)
            gave     == CarrierGaveTotal(LastPage.rawExtraction)
            role     == pageStops[1].locationType
        IN  /\ Len(pageStops) = 1
            /\ (received > 0 /\ gave = 0) => role = "pickup"
            /\ (gave > 0 /\ received = 0) => role = "delivery"
            /\ (received > 0 /\ gave > 0 /\ received > gave) => role = "pickup"
            /\ (received > 0 /\ gave > 0 /\ gave > received) => role = "delivery"
            /\ (received > 0 /\ gave > 0 /\ gave = received) => role = "delivery"

\* C15 witness: an exchange receipt with equal positive totals on both sides
\* was read as a delivery
C15_Witness ==
    /\ LastPageIs("palettennachweis")
    /\ CarrierReceivedTotal(LastPage.rawExtraction) = 1
    /\ CarrierGaveTotal(LastPage.rawExtraction) = 1
    /\ pageStops[1].locationType = "delivery"

\* what a goods-receipt confirmation reports for a pallet type in one of its
\* columns (received or returned), counting the positive entries
RECURSIVE ExchangeTotal(_, _, _)
ExchangeTotal(palletExchange, palletType, column) ==
    IF palletExchange = << >> THEN 0
    ELSE (IF Head(palletExchange).palletType = palletType
             /\ Head(palletExchange)[column] > 0
          THEN Head(palletExchange)[column] ELSE 0)
         + ExchangeTotal(Tail(palletExchange), palletType, column)

\* C16: the record of an exchange receipt or a goods-receipt confirmation
\* holds the document's given as the carrier's received and the document's
\* received as the carrier's given; the record of a loading list holds the
\* loaded pallets as received and nothing as given; the record enters
\* allStops as it is and the ledger's totals are the sums of the records'
\* totals side by side, so no record is swapped a second time
C16_SwappedExactlyOnce ==
    /\ LastPageIs("palettennachweis") =>
           /\ pageStops[1].palletsReceived = LastPage.rawExtraction.palletsGiven
           /\ pageStops[1].palletsGiven = LastPage.rawExtraction.palletsReceived
    /\ LastPageIs("wareneingangsbeleg") =>
           \A t \in PalletTypes :
               /\ TypeTotal(pageStops[1].palletsGiven, t, "quantity")
                      = ExchangeTotal(LastPage.rawExtraction.palletExchange, t, "received")
               /\ TypeTotal(pageStops[1].palletsReceived, t, "quantity")
                      = ExchangeTotal(LastPage.rawExtraction.palletExchange, t, "returned")
    /\ LastPageIs("ladeliste") =>
           /\ pageStops[1].palletsGiven = << >>
           /\ \/ pageStops[1].palletsReceived = LastPage.rawExtraction.totalPallets
              \/ /\ Len(LastPage.rawExtraction.stops) > 0
                 /\ pageStops[1].palletsReceived = LastPage.rawExtraction.stops[1].pallets
    /\ (pc = "fold" /\ Len(pageStops) > 0) =>
           allStops[Len(allStops)] = pageStops[1]
    /\ Returned =>
           /\ \A i \in 1..Len(extractedStops) :
                  /\ allStops[i].palletsReceived = extractedStops[i].palletsReceived
                  /\ allStops[i].palletsGiven = extractedStops[i].palletsGiven
           /\ \A k \in 1..Len(mergedStops), t \in PalletTypes :
                  /\ TypeTotal(mergedStops[k].palletsReceived, t, "quantity")
                         = RecordsTotal(allStops, k, "received", t, "quantity")
                  /\ TypeTotal(mergedStops[k].palletsGiven, t, "quantity")
                         = RecordsTotal(allStops, k, "given", t, "quantity")

\* C16 witness: a ledger made from one exchange receipt on which the
\* location gave 2 EUR and received 1 CHEP
C16_Witness ==
    /\ Returned
    /\ Len(processedPages) = 1
    /\ LastPageIs("palettennachweis")
    /\ LastPage.rawExtraction.palletsGiven = << Mv("EUR", 2) >>
    /\ LastPage.rawExtraction.palletsReceived = << Mv("CHEP", 1) >>
    /\ Len(mergedStops) = 1
    /\ mergedStops[1].palletsReceived = << Mv("EUR", 2) >>
    /\ mergedStops[1].palletsGiven = << Mv("CHEP", 1) >>

\* C17: every movement of every Stop of a returned ledger has a quantity
\* greater than 0
C17_PositiveQuantities ==
    Returned =>
        \A k \in 1..Len(mergedStops) :
            /\ \A i \in 1..Len(mergedStops[k].palletsReceived) :
                   mergedStops[k].palletsReceived[i].quantity > 0
            /\ \A i \in 1..Len(mergedStops[k].palletsGiven) :
                   mergedStops[k].palletsGiven[i].quantity > 0

Normalized == pc = "normalized"

\* the label as the alias rules read it
LabelRead == TrimChars(LowerCase(labelIn))

MatchesChepHalb ==
    \/ Includes(LabelRead, << "c", "h", "e", "p", "-", "h", "a", "l", "b" >>)
    \/ Includes(LabelRead, << "c", "h", "e", "p", " ", "h", "a", "l", "b" >>)

MatchesChepViertel ==
    \/ Includes(LabelRead, << "c", "h", "e", "p", "-", "v", "i", "e", "r", "t", "e", "l" >>)
    \/ Includes(LabelRead, << "c", "h", "e", "p", " ", "v", "i", "e", "r", "t", "e", "l" >>)

MatchesEurNt ==
    \/ LabelRead = << "e", "u", "r", "-", "n", "t" >>
    \/ Includes(LabelRead, << "n", "i", "c", "h", "t", " ", "t", "a", "u", "s", "c", "h" >>)

\* the strings the alias rules look for
AliasNeedles ==
    { << "e", "u", "r", "o", "-", "p", "a", "l", "e", "t", "t", "e" >>,
      << "e", "u", "r", "o", "p", "a", "l", "e", "t", "t", "e" >>,
      << "e", "u", "r", "-", "n", "t" >>,
      << "n", "i", "c", "h", "t", " ", "t", "a", "u", "s", "c", "h" >>,
      << "e", "u", "r" >>,
      << "e", "p" >>,
      << "3", "5", "6" >>,
      << "e", "i", "n", "w", "e", "g" >>,
      << "d", "ue", "s", "s" >>,
      << "d", "u", "s", "s" >>,
      << "d", "d" >>,
      << "h", "a", "l", "b", "p", "a", "l" >>,
      << "c", "h", "e", "p" >>,
      << "g", "i", "t", "t", "e", "r" >>,
      << "g", "b" >>,
      << "p", "l", "a", "s", "t", "i", "k" >>,
      << "k", "u", "n", "s", "t", "s", "t", "o", "f", "f" >>,
      << "h", "1" >>,
      << "r", "o", "l", "l" >>,
      << "i", "n", "d", "u", "s", "t", "r", "i", "e" >> }

MatchesNoRule == \A needle \in AliasNeedles : ~ Includes(LabelRead, needle)

\* C18: both normalizers return CHEP-HALB for a label that matches a
\* CHEP-HALB alias, CHEP-VIERTEL for one that matches a CHEP-VIERTEL alias
\* and EUR-NT for one that matches an EUR-NT alias, unknown for a label that
\* matches no alias rule, and they return a value for every label
C18_MostSpecificType ==
    Normalized =>
        /\ MatchesChepHalb =>
               labelOut.v010 = "CHEP-HALB" /\ labelOut.twoPass = "CHEP-HALB"
        /\ (MatchesChepViertel /\ ~ MatchesChepHalb) =>
               labelOut.v010 = "CHEP-VIERTEL" /\ labelOut.twoPass = "CHEP-VIERTEL"
        /\ MatchesEurNt =>
               labelOut.v010 = "EUR-NT" /\ labelOut.twoPass = "EUR-NT"
        /\ MatchesNoRule =>
               labelOut.v010 = "unknown" /\ labelOut.twoPass = "unknown"

Reviewed == pc = "reviewed"

LowConfidence ==
    reviewIn.extraction.confidence < reviewIn.config.lowConfidenceThreshold

OtherReviewReasons ==
    \/ Len(reviewIn.validation.errors) > 0
    \/ Len(reviewIn.validation.warnings) > 2
    \/ /\ reviewIn.extraction.pickup.uebernommen = 0
       /\ reviewIn.extraction.delivery.ueberlassen = 0

\* C19 as stated: needsReview is true iff the confidence is below the
\* threshold, or there is an error, or there are more than 2 warnings, or
\* pickup-received and delivery-given are both 0
C19_NeedsReview ==
    Reviewed => (reviewOut.needsReview <=> (LowConfidence \/ OtherReviewReasons))

\* C19 amended: needsReview is true iff flagLowConfidence is set and the
\* confidence is below the threshold, or there is an error, or there are more
\* than 2 warnings, or pickup-received and delivery-given are both 0
C19_NeedsReviewWithFlag ==
    Reviewed =>
        (reviewOut.needsReview <=>
            ((reviewIn.config.flagLowConfidence /\ LowConfidence) \/ OtherReviewReasons))

\* C19 witness: a record flagged for its low confidence alone
C19_Witness ==
    /\ Reviewed
    /\ reviewIn.config.flagLowConfidence
    /\ LowConfidence
    /\ ~ OtherReviewReasons
    /\ reviewOut.needsReview
    /\ Len(reviewOut.reasons) = 1

\* C20: with autoCorrectExchangeStatus enabled, a record submitted with a DPL
\* voucher issued and exchanged = true gets the DPL-conflict error, a result
\* with exchanged = false and corrected = true; and no returned result has
\* both dplIssued and exchanged = true
C20_DplConflictCorrected ==
    (pc = "validated" /\ valConfig.autoCorrectExchangeStatus) =>
        /\ (valIn.exchangeStatus.dplIssued /\ valIn.exchangeStatus.exchanged = "true") =>
              /\ \E i \in 1..Len(valOut.errors) : valOut.errors[i] = DplConflict
              /\ valOut.result.exchangeStatus.exchanged = "false"
              /\ valOut.corrected
        /\ ~ (valOut.result.exchangeStatus.dplIssued
              /\ valOut.result.exchangeStatus.exchanged = "true")

\* C20 witness: a DPL record submitted as fully exchanged, with a consistent
\* saldo, comes back corrected to exchanged = false
C20_Witness ==
    /\ pc = "validated"
    /\ valConfig.autoCorrectExchangeStatus
    /\ valIn.exchangeStatus.dplIssued
    /\ valIn.exchangeStatus.exchanged = "true"
    /\ valIn.saldo = expectedSaldo(valIn)
    /\ valOut.errors = << DplConflict >>
    /\ valOut.result.exchangeStatus.dplIssued
    /\ valOut.result.exchangeStatus.exchanged = "false"
    /\ valOut.corrected

\* C21: after validateExtraction returns, the record that was passed in is
\* field for field what it was before the call, under every configuration and
\* whether or not a correction was made
C21_OriginalPreserved ==
    pc = "validated" => valOriginal = valIn

\* C21 witness: a run that corrected the saldo and the exchange status in the
\* result while the record passed in kept both
C21_Witness ==
    /\ pc = "validated"
    /\ valOut.corrected
    /\ valOut.result.saldo # valIn.saldo
    /\ valOut.result.exchangeStatus.exchanged # valIn.exchangeStatus.exchanged
    /\ valOriginal = valIn

\* a step of the page loop in which processPage rejected
PageFailed == pc = "fold" /\ pagesDone' = pagesDone + 1 /\ processedPages' = processedPages

\* C22: a page whose classification or extraction call fails for good adds one
\* warning naming that page, contributes no stop or party data, and leaves the
\* fold running; the warnings collected are kept when the ledger is returned
C22_FailedPageSkipped ==
    [][ /\ PageFailed =>
            /\ allWarnings' = Append(allWarnings, FailedPageWarning(pagesDone + 1))
            /\ allStops' = allStops
            /\ consignee' = consignee
            /\ consigneeAddress' = consigneeAddress
            /\ pc' = "fold"
        /\ (pc = "fold" /\ pc' = "done") =>
            /\ Len(allWarnings') >= Len(allWarnings)
            /\ SubSeq(allWarnings', 1, Len(allWarnings)) = allWarnings
            /\ mergedStops' = mergeStops(allStops') ]_vars

\* C22 witness: the first page failed, a later page contributed a stop, and
\* the ledger was returned with the stop and the warning
C22_Witness ==
    /\ pc = "done"
    /\ pagesDone >= 2
    /\ Len(allWarnings) >= 1
    /\ allWarnings[1] = FailedPageWarning(1)
    /\ Len(processedPages) = pagesDone - 1
    /\ Len(extractedStops) > 0
    /\ Len(mergedStops) > 0

\* the call has ended in a failure its caller sees
FailureReported == retry.at \in {"thrown", "parseFailed"}

\* C23: on every path an unparsable oracle response is retried: a failure is
\* reported for it only when the attempt ceiling has been reached
C23_ParseFailureRetried ==
    (FailureReported /\ retry.responses[Len(retry.responses)] = "unparsable")
        => Len(retry.responses) = retry.maxRetries

\* the calls of fn made so far, and whether the k-th of them failed
FnCalls == Len(retry.responses)

FnFailed(k) == ~ FnResolves(retry.path, retry.responses[k])

\* C27: withRetry calls fn at most maxRetries times, returns the first
\* successful result without a further call, waits initialDelayMs * 2^k after
\* the k-th failed attempt (k = 0, 1, ...) only when another attempt remains,
\* and when every attempt fails throws the error of the last attempt
C27_WithRetry ==
    pc = "retrying" =>
        /\ FnCalls <= retry.maxRetries
        /\ \A k \in 1..(FnCalls - 1) : FnFailed(k)
        /\ retry.at \in {"returned", "parsed", "parseFailed"} =>
              /\ ~ FnFailed(FnCalls)
              /\ Len(retry.delays) = FnCalls - 1
        /\ \A k \in 1..Len(retry.delays) :
              retry.delays[k] = retry.initialDelayMs * 2 ^ (k - 1)
        /\ retry.at = "call" => Len(retry.delays) = FnCalls
        /\ retry.at = "sleep" => Len(retry.delays) = FnCalls - 1 /\ FnFailed(FnCalls)
        /\ Len(retry.delays) <= retry.maxRetries - 1
        /\ retry.at = "thrown" =>
              /\ FnCalls = retry.maxRetries
              /\ \A k \in 1..FnCalls : FnFailed(k)
              /\ Len(retry.delays) = retry.maxRetries - 1
              /\ retry.lastError = retry.maxRetries

\* C27 witness: two attempts failed, each followed by its wait, and the third
\* attempt returned
C27_Witness ==
    /\ pc = "retrying"
    /\ retry.at = "returned"
    /\ retry.maxRetries = 3
    /\ FnCalls = 3
    /\ retry.delays = << 1000, 2000 >>

\* C24: every group yields exactly one entry, a failed one with its error;
\* a failure never keeps a later group from being processed; and
\* successCount + failureCount is the number of entries
C24_OneEntryPerGroup ==
    pc = "batch" =>
        /\ Len(batch.results) = batch.next - 1
        /\ \A k \in 1..Len(batch.results) :
              /\ batch.results[k].group = k
              /\ batch.results[k].success <=> batch.results[k].error = Undefined
        /\ batch.at = "loop" => batch.next <= batch.groups + 1
        /\ batch.at = "summarized" =>
              /\ Len(batch.results) = batch.groups
              /\ batch.successCount + batch.failureCount = Len(batch.results)

\* C24 witness: the first group failed, the second succeeded, and the
\* summary counts one of each
C24_Witness ==
    /\ pc = "batch"
    /\ batch.at = "summarized"
    /\ batch.groups = 2
    /\ ~ batch.results[1].success
    /\ batch.results[2].success
    /\ batch.successCount = 1
    /\ batch.failureCount = 1

\* pages whose oracle call is in flight, and pages whose handler has started
\* and not returned
InFlight == {q \in 1..pool.pages : pool.status[q] = "calling"}

Started == {q \in 1..pool.pages : pool.status[q] \in {"calling", "waiting"}}

\* C25: never more than 3 pages have an oracle call in flight, and a page of
\* a chunk starts only after every page of the chunks before it has settled
C25_BoundedConcurrency ==
    pc = "pool" =>
        /\ Cardinality(InFlight) <= 3
        /\ \A q, r \in 1..pool.pages :
              ((r - 1) \div 3 < (q - 1) \div 3 /\ pool.status[q] # "pending")
                  => pool.status[r] \in {"ok", "failed"}
        /\ \A q \in Started : q \in ChunkPages(pool)

\* C25 witness: the three calls of the first chunk are in flight, one of them
\* a retry, while page 4 has not started
C25_Witness ==
    /\ pc = "pool"
    /\ pool.pages = 5
    /\ Cardinality(InFlight) = 3
    /\ pool.status[4] = "pending"
    /\ \E q \in InFlight : pool.attempt[q] > 1

\* C26: the collection returned holds one entry per input page, in input-page
\* order, whatever order the calls complete in; a page whose call failed is
\* present as a failure entry with confidence 0
C26_ResultsInPageOrder ==
    (pc = "pool" /\ pool.at = "returned") =>
        /\ Len(pool.results) = pool.pages
        /\ \A k \in 1..Len(pool.results) :
              /\ pool.results[k].pageNumber = k
              /\ pool.results[k].success <=> pool.status[k] = "ok"
              /\ pool.status[k] = "failed" =>
                    (~ pool.results[k].success /\ pool.results[k].confidence = 0)

\* C26 witness: the last page of a chunk settled first and failed, and the
\* map was returned with the pages in their order
C26_Witness ==
    /\ pc = "pool"
    /\ pool.at = "returned"
    /\ pool.pages = 5
    /\ pool.settled = << 5, 4 >>
    /\ pool.status[5] = "failed"
    /\ pool.status[4] = "ok"
    /\ pool.results[5] = [pageNumber |-> 5, success |-> FALSE, confidence |-> 0]

\* C28: the DPL-conflict error is emitted only for a record that was submitted
\* with a DPL voucher issued and exchanged = true, whatever the other checks
\* of the run corrected
C28_DplConflictFromSubmittedRecord ==
    (pc = "validated"
     /\ \E i \in 1..Len(valOut.errors) : valOut.errors[i] = DplConflict)
        => (valIn.exchangeStatus.dplIssued /\ valIn.exchangeStatus.exchanged = "true")

\* C29: determinePickupAndDelivery never returns the same Stop as both the
\* pickup and the delivery, also for a ledger of one stop and for quantities
\* that are zero or negative
C29_PickupAndDeliveryDiffer ==
    (pc = "formatted" /\ ~ lademittelmahnung.isNull) =>
        ~ (lademittelmahnung.pickup # 0
           /\ lademittelmahnung.pickup = lademittelmahnung.delivery)

\* C30: when the ledger holds a Stop with role pickup, the pickup figures are
\* those of a Stop with role pickup, and no Stop with role pickup is reported
\* as the delivery
C30_PickupFiguresFromPickupStop ==
    (pc = "formatted" /\ HasRole(mergedStops, "pickup")) =>
        /\ ~ lademittelmahnung.isNull
        /\ lademittelmahnung.pickup # 0
        /\ mergedStops[lademittelmahnung.pickup].locationType = "pickup"
        /\ lademittelmahnung.delivery # 0 =>
              mergedStops[lademittelmahnung.delivery].locationType # "pickup"

====
